---- MODULE Spec2Model ----
(***************************************************************************)
(* Predict-X (src/server.js): the in-memory prediction-market server.      *)
(*                                                                         *)
(* The model covers the in-memory database `db`, the price engine          *)
(* (updatePrices) and the route handlers register, trade, sell.            *)
(*                                                                         *)
(* Values.  The handlers receive JSON values and compute with JavaScript   *)
(* numbers, so a value of the program is modelled as a tagged record       *)
(* (JsNumber, JsString, JsUndefined, NaN) and the arithmetic and the       *)
(* comparisons of the code as the operators JsAdd, JsSub, JsMul, JsLe,     *)
(* JsGt, JsFloorDiv, which treat NaN as JavaScript does.  Arithmetic on     *)
(* numbers is exact, with one exception: the quotient of doubles under the *)
(* Math.floor of the share count, whose rounding can cost a whole share    *)
(* (QuotientRoundsBelow).  Rounding errors of the size of an ulp in money  *)
(* and average cost are not modelled.                                      *)
(*                                                                         *)
(* Units.  Money (amount, balance, vol, payout) is counted in hundredths   *)
(* of the code's unit, the resolution of `price / 100`: the code's         *)
(* balance 10000 is the model's 10000 * 100, the code's                    *)
(* amount / (price / 100) is the model's amount / price, and the code's    *)
(* shares * (price / 100) is the model's shares * price.  Prices (yes, no, *)
(* avg) and share counts are in the code's own units.                      *)
(***************************************************************************)
EXTENDS Integers, Sequences, FiniteSets, TLC

\* ------------------------------------------------------------------ bounds
MaxUsers == 2          \* registrations accepted in a run
NumMarkets == 2        \* markets generated at startup
MaxTrades == 2         \* trades that get past validation in a run
MaxTicks == 1          \* price ticks in a run
MaxInflight == 2       \* requests in flight at the same time
OrdersTicks == 2       \* price ticks in a run of SpecOrders
OrdersTrades == 4      \* accepted trades in a run of SpecOrders
LongRunTicks == 32     \* price ticks in a run of SpecLongRun
FreeTicks == 2         \* ticks of a run of SpecLongRun that draw any change
LongRunTrades == 1     \* accepted trades in a run of SpecLongRun
TickStepsTicks == 2    \* price ticks in a run of SpecTickSteps
TickStepsTrades == 2   \* accepted trades in a run of SpecTickSteps
BoardUsers == 3        \* registrations accepted in a run of SpecBoard
BoardTrades == 2       \* trades that get past validation in a run of SpecBoard
BoardTicks == 1        \* price ticks in a run of SpecBoard
TallyRange == 8        \* wins and losses a win rate is computed for
VolumeTrades == 2      \* accepted trades in a run of SpecVolume
VolumeTicks == 1       \* price ticks in a run of SpecVolume
ReadsTrades == 1       \* accepted trades in a run of SpecReads
ReadsTicks == 1        \* price ticks in a run of SpecReads
RegisterUsers == 3     \* registrations accepted in a run of SpecRegister
HandlerTrades == 2     \* accepted trades in a run of SpecHandlerSteps

\* --------------------------------------------------------- program constants
Hundred == 100                    \* price / 100, 100 - yes
StartBalance == 10000 * Hundred   \* balance: 10000
MinPrice == 1
MaxPrice == 99
HistoryLen == 30
LeaderboardLimit == 100           \* .slice(0, 100)

\* ------------------------------------------------------ JavaScript values
JsNumber(n) == [t |-> "number", n |-> n, s |-> ""]
JsString(s) == [t |-> "string", n |-> 0, s |-> s]
JsUndefined == [t |-> "undefined", n |-> 0, s |-> ""]
NaN == [t |-> "nan", n |-> 0, s |-> ""]

\* The string that is the decimal numeral of a whole amount, as a JSON body
\* may carry it ("2"); n is the amount in hundredths.
JsDecimal(n) == [t |-> "string", n |-> n, s |-> "decimal"]

\* A string that is no numeral ("NaN2", "undefined2").
NotNumeral == JsString("not a numeral")

\* body.username and body.email: a JSON string, or a JSON array, which
\* JSON.parse makes a new object every time.  s is the text JSON.stringify
\* gives for the value; ref tells one object from another (=== compares
\* objects by identity) and is 0 for a string.
JsText(s) == [s |-> s, ref |-> 0]
JsArray(s, ref) == [s |-> s, ref |-> ref]

IsNum(x) == x.t = "number"
IsDecimal(x) == x.t = "string" /\ x.s = "decimal"

\* The decimal digit strings the model uses as property keys.
IndexOfString(s) ==
    CASE s = "0" -> JsNumber(0)
      [] s = "1" -> JsNumber(1)
      [] OTHER -> NaN

\* ToNumber: the conversion the arithmetic and relational operators apply.
ToNumber(x) ==
    CASE x.t = "number" -> x
      [] IsDecimal(x) -> JsNumber(x.n)
      [] x.t = "string" /\ ~IsDecimal(x) -> IndexOfString(x.s)
      [] OTHER -> NaN

\* The number of digits of the numeral of u >= 0, and 10 to that power.
RECURSIVE Shift(_)
Shift(u) == IF u < 10 THEN 10 ELSE 10 * Shift(u \div 10)

\* a + b when one operand is a string: the other is converted to a string and
\* the two are concatenated.  The numerals of two whole amounts give the
\* numeral of another whole amount; anything else gives no numeral.
Concat(a, b) ==
    LET x == ToNumber(a)  y == ToNumber(b)
    IN  IF IsNum(x) /\ IsNum(y) /\ x.n >= 0 /\ y.n >= 0
           /\ x.n % Hundred = 0 /\ y.n % Hundred = 0
        THEN JsDecimal(((x.n \div Hundred) * Shift(y.n \div Hundred)
                        + y.n \div Hundred) * Hundred)
        ELSE NotNumeral

\* a + b: concatenation when an operand is a string, addition otherwise.
JsAdd(a, b) ==
    LET x == ToNumber(a)  y == ToNumber(b)
    IN  IF a.t = "string" \/ b.t = "string" THEN Concat(a, b)
        ELSE IF IsNum(x) /\ IsNum(y) THEN JsNumber(x.n + y.n) ELSE NaN

JsSub(a, b) ==
    LET x == ToNumber(a)  y == ToNumber(b)
    IN  IF IsNum(x) /\ IsNum(y) THEN JsNumber(x.n - y.n) ELSE NaN

JsMul(a, b) ==
    LET x == ToNumber(a)  y == ToNumber(b)
    IN  IF IsNum(x) /\ IsNum(y) THEN JsNumber(x.n * y.n) ELSE NaN

\* a <= b and a > b: false as soon as one side converts to NaN.
JsLe(a, b) ==
    LET x == ToNumber(a)  y == ToNumber(b)
    IN  IsNum(x) /\ IsNum(y) /\ x.n <= y.n

JsGt(a, b) ==
    LET x == ToNumber(a)  y == ToNumber(b)
    IN  IsNum(x) /\ IsNum(y) /\ x.n > y.n

\* Math.floor(a / b) for b > 0 (b is a price in 1..99, or NaN).
JsFloorDiv(a, b) ==
    LET x == ToNumber(a)  y == ToNumber(b)
    IN  IF IsNum(x) /\ IsNum(y) /\ y.n > 0 THEN JsNumber(x.n \div y.n) ELSE NaN

\* ------------------------------------------------- average cost (a ratio)
\* existing.avg is a price or a quotient of integers; it is kept as a reduced
\* fraction num / den (den > 0), or as NaN.
RECURSIVE GCD(_, _)
GCD(a, b) == IF b = 0 THEN a ELSE GCD(b, a % b)

Rat(num, den) ==
    LET g == GCD(num, den)
    IN  [t |-> "number", num |-> num \div g, den |-> den \div g]

RatNaN == [t |-> "nan", num |-> 0, den |-> 1]

\* avg: price
AvgOfPrice(price) ==
    IF IsNum(price) THEN [t |-> "number", num |-> price.n, den |-> 1] ELSE RatNaN

\* ((existing.avg * existing.shares) + (price * shares)) / totalShares
\* 0 / 0 is NaN; the numerator is 0 whenever totalShares is 0 (shares >= 0).
\* avg * oldShares = num * oldShares / den is computed as num * (oldShares / den)
\* when den divides oldShares, which keeps the products small.
MergedAvg(avg, oldShares, price, shares) ==
    LET totalShares == JsAdd(oldShares, shares)
    IN  IF avg.t = "number" /\ IsNum(oldShares) /\ IsNum(price) /\ IsNum(shares)
           /\ totalShares.n > 0
        THEN IF oldShares.n % avg.den = 0
             THEN Rat(avg.num * (oldShares.n \div avg.den) + price.n * shares.n,
                      totalShares.n)
             ELSE Rat(avg.num * oldShares.n + price.n * shares.n * avg.den,
                      avg.den * totalShares.n)
        ELSE RatNaN

\* A variant that counts a sale at the average cost as a win (>=).
PriceAtLeastAvg(currentPrice, avg) ==
    /\ IsNum(currentPrice)
    /\ avg.t = "number"
    /\ currentPrice.n * avg.den >= avg.num

\* currentPrice > pos.avg
PriceAboveAvg(currentPrice, avg) ==
    /\ IsNum(currentPrice)
    /\ avg.t = "number"
    /\ currentPrice.n * avg.den > avg.num

\* ------------------------------------------------------------------ state
VARIABLES
    users,       \* db.users: the users in insertion order
    positions,   \* db.positions: user id -> array of open positions
    markets,     \* db.markets: index -> market
    trades,      \* db.trades
    uuid,        \* number of position ids crypto.randomUUID() has produced
    now,         \* number of price ticks so far (the clock of lastUpdate)
    thrown,      \* number of requests answered 500 by the catch of the server
    inflight,    \* requests received whose body the server is still reading
    pc           \* where the updatePrices callback stands: the line it is about
                 \* to run and the market it is at; line 0 when it is not running

vars == <<users, positions, markets, trades, uuid, now, thrown, inflight, pc>>

MarketIdx == 0 .. NumMarkets - 1
Sides == {"YES", "NO"}

\* ------------------------------------------------------------ the inputs
\* Yes prices at startup: generateMarkets draws 10..89.
StartYes == {40}
LowestStartYes == 10
HighestStartYes == 89
StartVol == 100000 * Hundred
StartUsers == 100
StartHistory == 50

\* body.username, body.email: the values requests carry, and the accepted
\* registrations of a run in the order they arrive.
Usernames == {"ann", "bob"}
Emails == {"ann@x.io", "bob@x.io"}
Registrations == <<[username |-> "ann", email |-> "ann@x.io"],
                   [username |-> "bob", email |-> "bob@x.io"],
                   [username |-> "cat", email |-> "cat@x.io"]>>

\* body.side
SideInputs == {"YES", "NO", "MAYBE"}

\* body.amount, in hundredths: absent, negative, zero, 0.01 (buys no share at
\* a price above 1), 1.20 (three shares at 40, in exact arithmetic), 20, a
\* whole fresh balance, and one hundredth more.
AmountInputs ==
    {JsUndefined, JsNumber(-1 * Hundred), JsNumber(0), JsNumber(1), JsNumber(120),
     JsNumber(20 * Hundred), JsNumber(StartBalance), JsNumber(StartBalance + 1)}

\* body.marketId: the indices, the first index past the table, and two
\* strings: "0" (the key of market 0) and "length" (a property of the array).
MarketIdInputs ==
    {JsNumber(i) : i \in 0 .. NumMarkets} \cup {JsString("0"), JsString("length")}

\* The amounts and market ids of the requests the actions follow: those of
\* the inputs above that get past validation in some state.
TradedAmounts == {JsUndefined, JsNumber(1), JsNumber(20 * Hundred)}
TradedMarketIds == MarketIdInputs \ {JsNumber(NumMarkets)}

\* The user of the bearer token: 0 stands for a missing or invalid token.
NoUser == 0
UserIds == {users[i].id : i \in 1 .. Len(users)}
Callers == {NoUser} \cup UserIds

\* body.positionId: 0 is the id of no position.
PositionIdInputs == 0 .. uuid

\* ---------------------------------------------------------------- helpers
\* The state a handler starts from, and the shape of what it leaves: the db,
\* the two counters, and the value the handler returns (or the error the
\* server's catch reports).
NoResponse ==
    [status |-> 0, error |-> "", balance |-> JsUndefined, shares |-> JsUndefined,
     payout |-> JsUndefined]

Cur ==
    [users |-> users, positions |-> positions, markets |-> markets,
     trades |-> trades, uuid |-> uuid, thrown |-> thrown, response |-> NoResponse]

ErrorResponse(status, error) ==
    [NoResponse EXCEPT !.status = status, !.error = error]

\* return { error, status } before any write
Reject(status, error) == [Cur EXCEPT !.response = ErrorResponse(status, error)]

\* A variant that logs the request it refuses.
RejectOnLogged(db, status, error) ==
    [db EXCEPT !.response = ErrorResponse(status, error),
               !.trades = Append(db.trades, [id |-> 0, status |-> status])]

\* The same when the handler started from db.
RejectOn(db, status, error) == [db EXCEPT !.response = ErrorResponse(status, error)]

\* A variant that finds the first user whatever the id.
UserIndexFirst(us, id) == 1

\* db.users.get(id), for a registered id
UserIndexIn(us, id) == CHOOSE i \in 1 .. Len(us) : us[i].id = id
UserIndex(id) == UserIndexIn(users, id)
GetUser(id) == users[UserIndex(id)]

\* A variant that removes nothing.
RemoveNone(seq, i) == seq

\* Remove the element at index i (positions.splice(idx, 1)).
RemoveAt(seq, i) == SubSeq(seq, 1, i - 1) \o SubSeq(seq, i + 1, Len(seq))

\* The db after a handler: what the action assigns.
Commit(r) ==
    /\ users' = r.users
    /\ positions' = r.positions
    /\ markets' = r.markets
    /\ trades' = r.trades
    /\ uuid' = r.uuid
    /\ thrown' = r.thrown
    /\ UNCHANGED <<now, pc>>

\* ------------------------------------------------------------------- Init
\* The updatePrices callback is not on the stack.
NotRunning == [line |-> 0, i |-> 0]

\* generateMarkets, run once at startup; db.users, db.positions, db.trades empty.
generateMarkets(yes) ==
    [i \in MarketIdx |->
        [id |-> i, yes |-> yes[i], no |-> Hundred - yes[i],
         vol |-> JsNumber(StartVol), users |-> JsNumber(StartUsers),
         history |-> [k \in 1 .. HistoryLen |-> StartHistory],
         lastUpdate |-> 0]]

Init ==
    /\ users = <<>>
    /\ positions = <<>>
    /\ trades = <<>>
    /\ \E yes \in [MarketIdx -> StartYes] : markets = generateMarkets(yes)
    /\ uuid = 0
    /\ now = 0
    /\ thrown = 0
    /\ inflight = {}
    /\ pc = NotRunning

\* ------------------------------------------------------------ price engine
\* Math.round(m.yes + change), change = (Math.random() - 0.5) * 3 in [-1.5, 1.5):
\* Math.round rounds halves up, so the result is m.yes - 1, m.yes or m.yes + 1.
Changes == {-1, 0, 1}

Max(a, b) == IF a >= b THEN a ELSE b
Min(a, b) == IF a <= b THEN a ELSE b

\* Variants: one without Math.min, so nothing stops a price at 99.
ClampPriceBelowOnly(p) == Max(MinPrice, p)

\* Math.max(1, Math.min(99, ...))
ClampPrice(p) == Max(MinPrice, Min(MaxPrice, p))

\* A variant that works at the wrong ends (pop, unshift).
PopUnshift(history, yes) == <<yes>> \o SubSeq(history, 1, Len(history) - 1)

\* m.history.shift(); m.history.push(m.yes)
ShiftPush(history, yes) == Append(Tail(history), yes)

\* A variant that also counts the tick as a participant.
TickMarketCounted(m, change, time) ==
    LET yes == ClampPrice(m.yes + change)
    IN  [m EXCEPT !.yes = yes, !.no = Hundred - yes,
                  !.history = ShiftPush(m.history, yes), !.lastUpdate = time,
                  !.users = JsAdd(@, JsNumber(1))]

TickMarket(m, change, time) ==
    LET yes == ClampPrice(m.yes + change)
    IN  [m EXCEPT !.yes = yes, !.no = Hundred - yes,
                  !.history = ShiftPush(m.history, yes), !.lastUpdate = time]

\* One run of the interval callback, from its first line to its return:
\* every market moves in the same callback.  maxTicks bounds the runs, and
\* changes are the draws of Math.random() the run may see, one per market.
PriceTick(maxTicks, changes) ==
    /\ now < maxTicks
    /\ now' = now + 1
    /\ \E change \in changes :
          markets' = [i \in MarketIdx |-> TickMarket(markets[i], change[i], now + 1)]
    /\ UNCHANGED <<users, positions, trades, uuid, thrown, inflight, pc>>

updatePrices == PriceTick(MaxTicks, [MarketIdx -> Changes])

\* ----------------------------------------------------------------- register
\* [...db.users.values()].find(u => u.email === email || u.username === username)
UserExistsIn(us, username, email) ==
    \E i \in 1 .. Len(us) :
        \/ [s |-> us[i].email, ref |-> us[i].emailRef] = email
        \/ [s |-> us[i].username, ref |-> us[i].usernameRef] = username

UserExists(username, email) == UserExistsIn(users, JsText(username), JsText(email))

\* crypto.randomUUID() gives every user, position and trade an id no other
\* object has.  The n-th user gets the id n, the n-th position ever opened
\* the id n (ids of users and ids of positions are never compared with each
\* other), the n-th trade the id n.
UserId(n) == n
PositionId(n) == n
TradeId(n) == n

\* routes['POST /api/register'], started from db, for a username of three
\* characters or elements and more and a password of six and more.
registerOn(db, username, email) ==
    LET id == UserId(Len(db.users) + 1)
    IN  IF UserExistsIn(db.users, username, email)
        THEN RejectOn(db, 400, "User already exists")
        ELSE [db EXCEPT
                !.users = Append(db.users,
                    [id |-> id, username |-> username.s, email |-> email.s,
                     usernameRef |-> username.ref, emailRef |-> email.ref,
                     balance |-> JsNumber(StartBalance), wins |-> 0, losses |-> 0]),
                !.positions = db.positions @@ (id :> <<>>),
                !.response = [NoResponse EXCEPT !.status = 200,
                                                !.balance = JsNumber(StartBalance)]]

\* routes['POST /api/register'] on the db as it is, for strings
register(username, email) == registerOn(Cur, JsText(username), JsText(email))

\* -------------------------------------------------------------------- trade
\* !['YES', 'NO'].includes(side)
InvalidSide(side) == side \notin Sides

\* Variants: one without the check against the balance, one that refuses an
\* amount equal to the balance (>=).
InvalidAmountNoBalance(amount, balance) == JsLe(amount, JsNumber(0))

InvalidAmountStrict(amount, balance) ==
    JsLe(amount, JsNumber(0)) \/ ~JsGt(balance, amount)

\* amount <= 0 || amount > user.balance
InvalidAmount(amount, balance) == JsLe(amount, JsNumber(0)) \/ JsGt(amount, balance)

\* db.markets[marketId]: a number indexes the array; a string is a property
\* key, so "0" is element 0 and "length" is the length of the array, a number
\* (truthy, the table is not empty) that has no yes, no, vol, users or title.
LookupMarket(marketId) ==
    LET key == IF marketId.t = "string" THEN IndexOfString(marketId.s) ELSE marketId
    IN  CASE IsNum(key) /\ key.n \in MarketIdx -> [kind |-> "market", idx |-> key.n]
          [] marketId = JsString("length") -> [kind |-> "primitive", idx |-> 0]
          [] OTHER -> [kind |-> "undefined", idx |-> 0]

\* side === 'YES' ? market.yes : market.no
SidePrice(m, side) == JsNumber(IF side = "YES" THEN m.yes ELSE m.no)

\* A variant that rounds up (Math.ceil).
SharesForCeil(amount, price) ==
    LET x == ToNumber(amount)  y == ToNumber(price)
    IN  IF IsNum(x) /\ IsNum(y) /\ y.n > 0
        THEN JsNumber((x.n + y.n - 1) \div y.n) ELSE NaN

\* amount / (price / 100) is a quotient of doubles, and price / 100 is not
\* exact: where amount * 100 / price is an integer n, the quotient the code
\* computes can be the double just below n, which Math.floor takes down to
\* n - 1.  Of the amounts the model uses (0.01, 1.20, 20, 30, 5000, 6000,
\* 10000, 10000.01) and the prices 1..99 these are the pairs (amount in
\* hundredths, price) where that happens (1.2 / 0.4 = 2.9999999999999996);
\* for every other pair the floor is the floor of the exact quotient.
QuotientRoundsBelow == {<<120, 5>>, <<120, 10>>, <<120, 20>>, <<120, 40>>}

\* Math.floor(amount / (price / 100)), amount in hundredths
SharesFor(amount, price) ==
    LET q == JsFloorDiv(amount, price)
    IN  IF IsNum(q) /\ <<ToNumber(amount).n, price.n>> \in QuotientRoundsBelow
        THEN JsNumber(q.n - 1)
        ELSE q

\* positions.find(p => p.marketId === marketId && p.side === side): the index
\* of the first match, 0 when there is none.
FindExisting(ps, marketId, side) ==
    LET hits == {i \in 1 .. Len(ps) : ps[i].marketId = marketId /\ ps[i].side = side}
    IN  IF hits = {} THEN 0 ELSE CHOOSE i \in hits : \A j \in hits : i <= j

\* existing.avg = ...; existing.shares = totalShares
MergeInto(existing, price, shares) ==
    [existing EXCEPT !.avg = MergedAvg(existing.avg, existing.shares, price, shares),
                     !.shares = JsAdd(existing.shares, shares)]

\* positions.push({id, marketId, title, side, shares, avg: price, openedAt})
NewPosition(id, marketId, side, shares, price) ==
    [id |-> id, marketId |-> marketId, side |-> side, shares |-> shares,
     avg |-> AvgOfPrice(price)]

\* user.balance -= amount
Debit(balance, amount) == JsSub(balance, amount)

\* the users after `user` (found by getUser) was written to
SetUser(id, u) == [users EXCEPT ![UserIndex(id)] = u]

\* Lines 205-242: an accepted trade on market i, started from db.
ExecuteTradeOn(db, caller, i, marketId, side, amount) ==
    LET k == UserIndexIn(db.users, caller)
        user == db.users[k]
        market == db.markets[i]
        price == SidePrice(market, side)
        shares == SharesFor(amount, price)
        balance == Debit(user.balance, amount)
        ps == db.positions[caller]
        idx == FindExisting(ps, marketId, side)
    IN  [db EXCEPT
            !.users = [db.users EXCEPT ![k].balance = balance],
            !.markets = [db.markets EXCEPT ![i].vol = JsAdd(market.vol, amount),
                                           ![i].users = JsAdd(market.users, JsNumber(1))],
            !.positions = [db.positions EXCEPT ![caller] =
                IF idx # 0
                THEN [ps EXCEPT ![idx] = MergeInto(ps[idx], price, shares)]
                ELSE Append(ps, NewPosition(PositionId(db.uuid + 1), marketId, side,
                                            shares, price))],
            !.trades = Append(db.trades,
                [id |-> TradeId(Len(db.trades) + 1), userId |-> caller,
                 marketId |-> marketId, side |-> side, shares |-> shares,
                 price |-> price, amount |-> amount]),
            !.uuid = IF idx # 0 THEN db.uuid ELSE db.uuid + 1,
            !.response = [NoResponse EXCEPT !.status = 200, !.balance = balance,
                                            !.shares = shares]]

ExecuteTrade(caller, i, marketId, side, amount) ==
    ExecuteTradeOn(Cur, caller, i, marketId, side, amount)

\* The same lines when db.markets[marketId] is a number: the balance is
\* debited, the assignments to market.vol and market.users are dropped
\* (properties of a primitive, sloppy mode), and the object literal of
\* positions.push throws at market.title.substring: nothing is pushed (the id
\* drawn for the position is dropped) and the server's catch answers 500.
ExecuteTradeThrowsOn(db, caller, amount) ==
    LET k == UserIndexIn(db.users, caller)
    IN  [db EXCEPT
            !.users = [db.users EXCEPT ![k].balance = Debit(db.users[k].balance, amount)],
            !.thrown = db.thrown + 1,
            !.response = ErrorResponse(500, "TypeError")]

ExecuteTradeThrows(caller, amount) == ExecuteTradeThrowsOn(Cur, caller, amount)

\* routes['POST /api/trade'], started from db
tradeOn(db, caller, marketId, side, amount) ==
    LET market == LookupMarket(marketId)
    IN  CASE caller = NoUser -> RejectOn(db, 401, "Unauthorized")
          [] caller # NoUser /\ InvalidSide(side) -> RejectOn(db, 400, "Invalid side")
          [] caller # NoUser /\ ~InvalidSide(side)
             /\ InvalidAmount(amount, db.users[UserIndexIn(db.users, caller)].balance) ->
                 RejectOn(db, 400, "Invalid amount")
          [] OTHER ->
                 CASE market.kind = "undefined" -> RejectOn(db, 404, "Market not found")
                   [] market.kind = "primitive" -> ExecuteTradeThrowsOn(db, caller, amount)
                   [] OTHER -> ExecuteTradeOn(db, caller, market.idx, marketId, side, amount)

\* routes['POST /api/trade'] on the db as it is
trade(caller, marketId, side, amount) == tradeOn(Cur, caller, marketId, side, amount)

\* --------------------------------------------------------------------- sell
\* A variant whose callback assigns instead of comparing (p.id = positionId):
\* the first position matches whatever its id.
FindPositionAssign(ps, positionId) == IF Len(ps) > 0 THEN 1 ELSE 0

\* positions.findIndex(p => p.id === positionId): 0 stands for -1
FindPosition(ps, positionId) ==
    LET hits == {i \in 1 .. Len(ps) : ps[i].id = positionId}
    IN  IF hits = {} THEN 0 ELSE CHOOSE i \in hits : \A j \in hits : i <= j

\* A variant that leaves out the division by 100.
PayoutUnscaled(shares, currentPrice) == JsMul(JsMul(shares, currentPrice), JsNumber(Hundred))

\* pos.shares * (currentPrice / 100), in hundredths
Payout(shares, currentPrice) == JsMul(shares, currentPrice)

\* user.balance += payout
Credit(balance, payout) == JsAdd(balance, payout)

\* A variant without the else of line 261: a Sell that is not a win is not
\* counted.
ExecuteSellWinsOnlyOn(db, caller, idx) ==
    LET k == UserIndexIn(db.users, caller)
        user == db.users[k]
        ps == db.positions[caller]
        pos == ps[idx]
        market == db.markets[LookupMarket(pos.marketId).idx]
        currentPrice == SidePrice(market, pos.side)
        payout == Payout(pos.shares, currentPrice)
        balance == Credit(user.balance, payout)
        won == PriceAboveAvg(currentPrice, pos.avg)
    IN  [db EXCEPT
            !.users = [db.users EXCEPT ![k] =
                [user EXCEPT !.balance = balance,
                             !.wins = IF won THEN @ + 1 ELSE @]],
            !.positions = [db.positions EXCEPT ![caller] = RemoveAt(ps, idx)],
            !.response = [NoResponse EXCEPT !.status = 200, !.balance = balance,
                                            !.payout = payout]]

\* Lines 254-265, started from db.  pos.marketId was accepted by trade, so it
\* names a market.
ExecuteSellOn(db, caller, idx) ==
    LET k == UserIndexIn(db.users, caller)
        user == db.users[k]
        ps == db.positions[caller]
        pos == ps[idx]
        market == db.markets[LookupMarket(pos.marketId).idx]
        currentPrice == SidePrice(market, pos.side)
        payout == Payout(pos.shares, currentPrice)
        balance == Credit(user.balance, payout)
        won == PriceAboveAvg(currentPrice, pos.avg)
    IN  [db EXCEPT
            !.users = [db.users EXCEPT ![k] =
                [user EXCEPT !.balance = balance,
                             !.wins = IF won THEN @ + 1 ELSE @,
                             !.losses = IF won THEN @ ELSE @ + 1]],
            !.positions = [db.positions EXCEPT ![caller] = RemoveAt(ps, idx)],
            !.response = [NoResponse EXCEPT !.status = 200, !.balance = balance,
                                            !.payout = payout]]

ExecuteSell(caller, idx) == ExecuteSellOn(Cur, caller, idx)

\* routes['POST /api/sell'], started from db
sellOn(db, caller, positionId) ==
    IF caller = NoUser
    THEN RejectOn(db, 401, "Unauthorized")
    ELSE LET idx == FindPosition(db.positions[caller], positionId)
         IN  IF idx = 0
             THEN RejectOn(db, 404, "Position not found")
             ELSE ExecuteSellOn(db, caller, idx)

\* routes['POST /api/sell'] on the db as it is
sell(caller, positionId) == sellOn(Cur, caller, positionId)

\* -------------------------------------------------------------- leaderboard
\* A variant that values a position at its average cost, rounded down to
\* hundredths.
PositionValueAtCost(p, ms) ==
    IF IsNum(p.shares) /\ p.avg.t = "number"
    THEN JsNumber((p.shares.n * p.avg.num) \div p.avg.den)
    ELSE NaN

\* p.shares * ((p.side === 'YES' ? m.yes : m.no) / 100), m = db.markets[p.marketId],
\* in hundredths.
PositionValue(p, ms) ==
    JsMul(p.shares, SidePrice(ms[LookupMarket(p.marketId).idx], p.side))

\* (db.positions.get(u.id) || []).reduce((a, p) => a + value(p), 0), from the
\* k-th position on with a as the accumulator.
RECURSIVE ReduceValues(_, _, _, _)
ReduceValues(ps, ms, k, a) ==
    IF k > Len(ps) THEN a
    ELSE ReduceValues(ps, ms, k + 1, JsAdd(a, PositionValue(ps[k], ms)))

\* u.balance + the reduce: the `balance` of a leaderboard entry.
NetWorth(u, ps, ms) == JsAdd(u.balance, ReduceValues(ps, ms, 1, JsNumber(0)))

\* A variant without the * 100.
RoundRatio(x, y) == (2 * x + y) \div (2 * y)

\* Math.round(x / y * 100) for integers x >= 0, y > 0: halves round up.  The
\* doubles give this value for every y below 40; the first pair for which
\* they do not is 23 / 40 * 100 = 57.49999999999999, rounded to 57.
RoundPercent(x, y) == (2 * Hundred * x + y) \div (2 * y)

\* u.wins + u.losses > 0 ? Math.round(u.wins / (u.wins + u.losses) * 100) : 0
WinRate(wins, losses) ==
    IF wins + losses > 0 THEN RoundPercent(wins, wins + losses) ELSE 0

\* The callback of .map
LeaderboardEntry(u, ps, ms) ==
    [username |-> u.username, balance |-> NetWorth(u, ps[u.id], ms),
     wins |-> u.wins, winRate |-> WinRate(u.wins, u.losses), rank |-> 0]

\* (a, b) => b.balance - a.balance
CompareFn(a, b) == JsSub(b.balance, a.balance)

\* .sort(comparefn): a result that is NaN counts as 0, and the sort is stable.
\* Arrays this short are sorted by binary insertion: the slot of the pivot in
\* the sorted prefix is searched between left and right (0-based, as in the
\* engine), and the pivot goes before the element at mid when
\* comparefn(pivot, mid) < 0.
RECURSIVE SearchSlot(_, _, _, _)
SearchSlot(sorted, pivot, left, right) ==
    IF left >= right THEN left
    ELSE LET mid == left + (right - left) \div 2
             order == CompareFn(pivot, sorted[mid + 1])
         IN  IF IsNum(order) /\ order.n < 0
             THEN SearchSlot(sorted, pivot, left, mid)
             ELSE SearchSlot(sorted, pivot, mid + 1, right)

InsertAt(seq, k, e) == SubSeq(seq, 1, k) \o <<e>> \o SubSeq(seq, k + 1, Len(seq))

RECURSIVE SortFrom(_, _)
SortFrom(sorted, rest) ==
    IF rest = <<>> THEN sorted
    ELSE SortFrom(InsertAt(sorted, SearchSlot(sorted, Head(rest), 0, Len(sorted)),
                           Head(rest)),
                  Tail(rest))

Sort(entries) == SortFrom(<<>>, entries)

\* routes['GET /api/leaderboard'] on the db (us, ps, ms): map, sort, slice,
\* and the rank i + 1 of the element at index i.
leaderboardOf(us, ps, ms) ==
    LET entries == [k \in 1 .. Len(us) |-> LeaderboardEntry(us[k], ps, ms)]
        sorted == Sort(entries)
        top == SubSeq(sorted, 1, Min(LeaderboardLimit, Len(sorted)))
    IN  [k \in 1 .. Len(top) |-> [top[k] EXCEPT !.rank = k]]

leaderboard == leaderboardOf(users, positions, markets)

\* ------------------------------------------------------------------ actions
\* One action per request: the handler runs to completion, then its writes
\* are the next state.  A request that is rejected before any write leaves
\* every variable as it is, so the actions are the requests that write.
\* Len(...) < Max... are the bounds of the model.
Wrote(r) == r.response.status \in {200, 500}

Register ==
    /\ Len(users) < MaxUsers
    /\ Len(users) < Len(Registrations)
    /\ LET reg == Registrations[Len(users) + 1]
           r == register(reg.username, reg.email)
       IN  Wrote(r) /\ Commit(r)
    /\ UNCHANGED inflight

Trade ==
    /\ Len(trades) + thrown < MaxTrades
    /\ \E caller \in UserIds, marketId \in TradedMarketIds, side \in Sides,
          amount \in TradedAmounts :
           LET r == trade(caller, marketId, side, amount)
           IN  Wrote(r) /\ Commit(r)
    /\ UNCHANGED inflight

Sell ==
    /\ \E caller \in UserIds, positionId \in PositionIdInputs :
           LET r == sell(caller, positionId)
           IN  Wrote(r) /\ Commit(r)
    /\ UNCHANGED inflight

Next ==
    \/ Register
    \/ Trade
    \/ Sell
    \/ updatePrices

Spec == Init /\ [][Next]_vars

\* -------------------------------------------------- requests in flight
\* http.createServer's listener: a POST is received, its body is read chunk
\* by chunk (`for await`, where other requests and the timer get their turn),
\* and then the handler is called; the handler has no await, so it runs from
\* its first line to its return with nothing in between.
TradeRequest(n, caller, marketId, side, amount) ==
    [n |-> n, route |-> "trade", user |-> caller, marketId |-> marketId,
     side |-> side, amount |-> amount, positionId |-> 0]

SellRequest(n, caller, positionId) ==
    [n |-> n, route |-> "sell", user |-> caller, marketId |-> JsUndefined,
     side |-> "", amount |-> JsUndefined, positionId |-> positionId]

\* The amounts of the requests in flight: 6000 and 5000, each within a fresh
\* balance and together above it.
RacingAmounts == {JsNumber(6000 * Hundred), JsNumber(5000 * Hundred)}

\* The connections free to carry a request.
FreeConnections == (1 .. MaxInflight) \ {req.n : req \in inflight}

Arrive ==
    /\ FreeConnections # {}
    /\ LET n == CHOOSE k \in FreeConnections : \A j \in FreeConnections : k <= j
       IN  \E caller \in UserIds :
              \/ \E amount \in RacingAmounts :
                    inflight' = inflight \cup
                        {TradeRequest(n, caller, JsNumber(0), "YES", amount)}
              \/ \E positionId \in PositionIdInputs \ {0} :
                    inflight' = inflight \cup {SellRequest(n, caller, positionId)}
    /\ UNCHANGED <<users, positions, markets, trades, uuid, now, thrown, pc>>

\* const result = await handler(req, body)
Handle(req) ==
    IF req.route = "trade"
    THEN trade(req.user, req.marketId, req.side, req.amount)
    ELSE sell(req.user, req.positionId)

Dispatch ==
    \E req \in inflight :
        LET r == Handle(req)
        IN  /\ Len(r.trades) + r.thrown <= MaxTrades
            /\ Commit(r)
            /\ inflight' = inflight \ {req}

NextInFlight ==
    \/ Register
    \/ Arrive
    \/ Dispatch
    \/ updatePrices

SpecInFlight == Init /\ [][NextInFlight]_vars

\* ------------------------------------------------ two Buys, in both orders
\* Runs in which the users buy YES on market 0 for 20 or for 30 while the
\* price moves: long enough for two users to get the same two fills in
\* opposite orders (one before and after a tick up, the other before and
\* after the tick back down).  The market is named by its index or by the
\* key "0".
OrderAmounts == {JsNumber(20 * Hundred), JsNumber(30 * Hundred)}
OrderMarketIds == {JsNumber(0), JsString("0")}

OrdersTrade ==
    /\ Len(trades) < OrdersTrades
    /\ \E caller \in UserIds, marketId \in OrderMarketIds, amount \in OrderAmounts :
           LET r == trade(caller, marketId, "YES", amount)
           IN  Wrote(r) /\ Commit(r)
    /\ UNCHANGED inflight

\* The ticks of these runs move every price, one up or one down.
OrderChanges == {-1, 1}

OrdersTick == PriceTick(OrdersTicks, [MarketIdx -> OrderChanges])

NextOrders ==
    \/ Register
    \/ OrdersTrade
    \/ OrdersTick

SpecOrders == Init /\ [][NextOrders]_vars

\* ------------------------------------------------------------- a long run
\* Runs long enough for the prices to reach 1 and 99 and for the history to
\* be replaced entirely.  The markets start at the ends of the range
\* generateMarkets draws from, alternately 10 and 89.  The first FreeTicks
\* ticks draw any change; the later ones draw, for every market, the change
\* away from 50, which takes the price onto the clamp and keeps it there.
\* One Buy of 20 happens somewhere in the run.
LongRunYes == [i \in MarketIdx |-> IF i % 2 = 0 THEN LowestStartYes ELSE HighestStartYes]

InitLongRun ==
    /\ users = <<>>
    /\ positions = <<>>
    /\ trades = <<>>
    /\ markets = generateMarkets(LongRunYes)
    /\ uuid = 0
    /\ now = 0
    /\ thrown = 0
    /\ inflight = {}
    /\ pc = NotRunning

LongRunChanges ==
    IF now < FreeTicks
    THEN [MarketIdx -> Changes]
    ELSE {[i \in MarketIdx |-> IF 2 * markets[i].yes >= Hundred THEN 1 ELSE -1]}

LongRunTick == PriceTick(LongRunTicks, LongRunChanges)

LongRunTrade ==
    /\ Len(trades) < LongRunTrades
    /\ \E caller \in UserIds, i \in MarketIdx, side \in Sides :
           LET r == trade(caller, JsNumber(i), side, JsNumber(20 * Hundred))
           IN  Wrote(r) /\ Commit(r)
    /\ UNCHANGED inflight

NextLongRun ==
    \/ Register
    \/ LongRunTrade
    \/ LongRunTick

SpecLongRun == InitLongRun /\ [][NextLongRun]_vars

\* ------------------------------------------------- the callback line by line
\* updatePrices taken one statement at a time: pc.line is the line the
\* callback is about to run and pc.i the market of the forEach it is at.
\* Between lines 105 and 106 a market has its new yes and its old no.  The
\* callback has no await, and Node runs a callback to its return before it
\* takes the next event, so a request handler starts only when no callback is
\* on the stack.
IdleAlways == TRUE

Idle == pc = NotRunning

\* setInterval(updatePrices, 500) fires.
TimerFires ==
    /\ pc = NotRunning
    /\ now < TickStepsTicks
    /\ now' = now + 1
    /\ pc' = [line |-> 105, i |-> 0]
    /\ UNCHANGED <<users, positions, markets, trades, uuid, thrown, inflight>>

\* m.yes = Math.max(1, Math.min(99, Math.round(m.yes + change)))
Line105 ==
    /\ pc.line = 105
    /\ \E change \in Changes :
          markets' = [markets EXCEPT ![pc.i].yes = ClampPrice(@ + change)]
    /\ pc' = [pc EXCEPT !.line = 106]
    /\ UNCHANGED <<users, positions, trades, uuid, now, thrown, inflight>>

\* m.no = 100 - m.yes
Line106 ==
    /\ pc.line = 106
    /\ markets' = [markets EXCEPT ![pc.i].no = Hundred - markets[pc.i].yes]
    /\ pc' = [pc EXCEPT !.line = 107]
    /\ UNCHANGED <<users, positions, trades, uuid, now, thrown, inflight>>

\* m.history.shift(); m.history.push(m.yes); m.lastUpdate = Date.now(); then
\* the next market of the forEach, or the return.
Line107 ==
    /\ pc.line = 107
    /\ markets' = [markets EXCEPT
                      ![pc.i].history = ShiftPush(@, markets[pc.i].yes),
                      ![pc.i].lastUpdate = now]
    /\ pc' = IF pc.i + 1 < NumMarkets
             THEN [line |-> 105, i |-> pc.i + 1]
             ELSE NotRunning
    /\ UNCHANGED <<users, positions, trades, uuid, now, thrown, inflight>>

TickStepsRegister == Idle /\ Register

TickStepsTrade ==
    /\ Idle
    /\ Len(trades) < TickStepsTrades
    /\ \E caller \in UserIds, i \in MarketIdx, side \in Sides :
           LET r == trade(caller, JsNumber(i), side, JsNumber(20 * Hundred))
           IN  Wrote(r) /\ Commit(r)
    /\ UNCHANGED inflight

TickStepsSell == Idle /\ Sell

NextTickSteps ==
    \/ TimerFires
    \/ Line105
    \/ Line106
    \/ Line107
    \/ TickStepsRegister
    \/ TickStepsTrade
    \/ TickStepsSell

SpecTickSteps == Init /\ [][NextTickSteps]_vars

\* ------------------------------------------------- three users on the board
\* Runs with three registered users, enough for the leaderboard to have an
\* entry between two others.  Buys are of YES on market 0, with the amounts
\* of the actions above.
BoardRegister ==
    /\ Len(users) < BoardUsers
    /\ Len(users) < Len(Registrations)
    /\ LET reg == Registrations[Len(users) + 1]
           r == register(reg.username, reg.email)
       IN  Wrote(r) /\ Commit(r)
    /\ UNCHANGED inflight

BoardTrade ==
    /\ Len(trades) < BoardTrades
    /\ \E caller \in UserIds, amount \in TradedAmounts :
           LET r == trade(caller, JsNumber(0), "YES", amount)
           IN  Wrote(r) /\ Commit(r)
    /\ UNCHANGED inflight

BoardTick == PriceTick(BoardTicks, [MarketIdx -> OrderChanges])

NextBoard ==
    \/ BoardRegister
    \/ BoardTrade
    \/ BoardTick

SpecBoard == Init /\ [][NextBoard]_vars

\* ------------------------------------------------- amounts sent as strings
\* Runs whose Buys carry the amount 2 either as a number or as the string
\* "2", on any market and side, with Sells and a tick in between.
VolumeAmounts == {JsNumber(2 * Hundred), JsDecimal(2 * Hundred)}

VolumeTrade ==
    /\ Len(trades) < VolumeTrades
    /\ \E caller \in UserIds, i \in MarketIdx, side \in Sides, amount \in VolumeAmounts :
           LET r == trade(caller, JsNumber(i), side, amount)
           IN  Wrote(r) /\ Commit(r)
    /\ UNCHANGED inflight

VolumeTick == PriceTick(VolumeTicks, [MarketIdx -> OrderChanges])

NextVolume ==
    \/ Register
    \/ VolumeTrade
    \/ Sell
    \/ VolumeTick

SpecVolume == Init /\ [][NextVolume]_vars

\* ------------------------------------------------------------------ reads
\* The GET routes.  Each builds its answer from new objects (map, filter,
\* slice, reduce, the spread of db.users.values()) or returns an object of
\* the db as it is (the market of /api/markets/:id, the position list of
\* /api/me), which the server passes to JSON.stringify; the in-place sort of
\* the leaderboard works on the array map made.  The listener's
\* `delete result.status` acts on the object the handler returned, never on
\* one of the db.  So each leaves the db as it found it and answers.
Answer(db) == [db EXCEPT !.response = [NoResponse EXCEPT !.status = 200]]

\* A variant of the leaderboard whose sort reorders db.users itself, by
\* balance.
leaderboardSortsUsers(db) ==
    [Answer(db) EXCEPT !.users =
        IF Len(db.users) = 2 /\ JsGt(db.users[2].balance, db.users[1].balance)
        THEN <<db.users[2], db.users[1]>>
        ELSE db.users]

\* routes['GET /api/leaderboard']; the list it answers is leaderboardOf.
leaderboardOn(db) == Answer(db)

\* routes['GET /api/markets/:id'], id = parseInt of the digits of the path
marketOn(db, id) ==
    IF id \in MarketIdx THEN Answer(db) ELSE RejectOn(db, 404, "Market not found")

\* routes['GET /api/markets']
marketsOn(db) == Answer(db)

\* routes['GET /api/me']
meOn(db, caller) ==
    IF caller = NoUser
    THEN RejectOn(db, 401, "Unauthorized")
    ELSE [Answer(db) EXCEPT
            !.response.balance = db.users[UserIndexIn(db.users, caller)].balance]

\* routes['GET /api/stats']
statsOn(db) == Answer(db)

ReadRequest(n, route, caller, id) ==
    [n |-> n, route |-> route, user |-> caller, id |-> id]

\* The GET requests a client may send in this state.
ReadRequests(n) ==
    {ReadRequest(n, route, NoUser, 0) : route \in {"leaderboard", "markets", "stats"}}
    \cup {ReadRequest(n, "market", NoUser, id) : id \in 0 .. NumMarkets}
    \cup {ReadRequest(n, "me", caller, 0) : caller \in Callers}

HandleRead(db, req) ==
    CASE req.route = "leaderboard" -> leaderboardOn(db)
      [] req.route = "market" -> marketOn(db, req.id)
      [] req.route = "markets" -> marketsOn(db)
      [] req.route = "me" -> meOn(db, req.user)
      [] OTHER -> statsOn(db)

\* A GET arrives; it is answered after the listener's `await handler(...)`.
ReadArrives ==
    /\ FreeConnections # {}
    /\ LET n == CHOOSE k \in FreeConnections : \A j \in FreeConnections : k <= j
       IN  \E req \in ReadRequests(n) : inflight' = inflight \cup {req}
    /\ UNCHANGED <<users, positions, markets, trades, uuid, now, thrown, pc>>

ReadDispatch ==
    \E req \in inflight :
        /\ Commit(HandleRead(Cur, req))
        /\ inflight' = inflight \ {req}

ReadsTrade ==
    /\ Len(trades) < ReadsTrades
    /\ \E caller \in UserIds :
           LET r == trade(caller, JsNumber(0), "YES", JsNumber(20 * Hundred))
           IN  Wrote(r) /\ Commit(r)
    /\ UNCHANGED inflight

ReadsTick == PriceTick(ReadsTicks, [MarketIdx -> OrderChanges])

NextReads ==
    \/ Register
    \/ ReadsTrade
    \/ Sell
    \/ ReadsTick
    \/ ReadArrives
    \/ ReadDispatch

SpecReads == Init /\ [][NextReads]_vars

\* ------------------------------------------- registrations with any values
\* Runs whose registrations carry, as username and as email, one of two
\* strings or an array (of three elements as username, so that its length
\* passes the check of the username), parsed anew from every body.
RegisterBodies(ref) ==
    {[username |-> u, email |-> e] :
        u \in {JsText("ann"), JsText("bob"), JsArray("['a','n','n']", ref)},
        e \in {JsText("ann@x.io"), JsText("bob@x.io"), JsArray("['x']", ref)}}

\* The bodies a client may send in this state: the objects of a new body are
\* none of those stored.
NewBodies == RegisterBodies(Len(users) + 1)

RegisterBody ==
    /\ Len(users) < RegisterUsers
    /\ \E body \in NewBodies :
           LET r == registerOn(Cur, body.username, body.email)
           IN  Wrote(r) /\ Commit(r)
    /\ UNCHANGED inflight

NextRegister ==
    \/ RegisterBody
    \/ LongRunTrade

SpecRegister == Init /\ [][NextRegister]_vars

\* ------------------------------------------------- the handlers line by line
\* The trade and sell handlers taken a few statements at a time, from the
\* first write on: pc.line is the line the handler is about to run, and pc
\* keeps its locals and `whole`, the db the handler leaves when it runs from
\* start to return.  Neither handler has an await, and Node runs the
\* listener's continuation to the handler's return before it takes the next
\* event, so a request (a leaderboard call among them) is served only when no
\* handler is on the stack.  Buys are of YES at the starting price for 20 or
\* 40, which buy 50 or 100 shares with nothing left over, and there are no
\* ticks: every position is worth what was paid for it.
BetweenAlways == TRUE

Between == pc = NotRunning

HandlerAmounts == {JsNumber(20 * Hundred), JsNumber(40 * Hundred)}

\* Lines 195-208: the checks pass and user.balance -= amount
BuyStarts ==
    /\ Between
    /\ Len(trades) < HandlerTrades
    /\ \E caller \in UserIds, i \in MarketIdx, amount \in HandlerAmounts :
          LET whole == trade(caller, JsNumber(i), "YES", amount)
          IN  /\ whole.response.status = 200
              /\ users' = [users EXCEPT ![UserIndex(caller)].balance = Debit(@, amount)]
              /\ pc' = [line |-> 209, i |-> i, caller |-> caller, amount |-> amount,
                        whole |-> whole]
    /\ UNCHANGED <<positions, markets, trades, uuid, now, thrown, inflight>>

\* Lines 209-210: market.vol += amount; market.users++
BuyLine209 ==
    /\ pc.line = 209
    /\ markets' = [markets EXCEPT ![pc.i].vol = JsAdd(@, pc.amount),
                                  ![pc.i].users = JsAdd(@, JsNumber(1))]
    /\ pc' = [pc EXCEPT !.line = 212]
    /\ UNCHANGED <<users, positions, trades, uuid, now, thrown, inflight>>

\* Lines 212-229: the merge into the existing position, or the push of a new one
BuyLine212 ==
    /\ pc.line = 212
    /\ LET ps == positions[pc.caller]
           price == SidePrice(markets[pc.i], "YES")
           shares == SharesFor(pc.amount, price)
           idx == FindExisting(ps, JsNumber(pc.i), "YES")
       IN  /\ positions' = [positions EXCEPT ![pc.caller] =
                  IF idx # 0
                  THEN [ps EXCEPT ![idx] = MergeInto(ps[idx], price, shares)]
                  ELSE Append(ps, NewPosition(PositionId(uuid + 1), JsNumber(pc.i),
                                              "YES", shares, price))]
           /\ uuid' = IF idx # 0 THEN uuid ELSE uuid + 1
    /\ pc' = [pc EXCEPT !.line = 231]
    /\ UNCHANGED <<users, markets, trades, now, thrown, inflight>>

\* Lines 231-242: db.trades.push and the return
BuyLine231 ==
    /\ pc.line = 231
    /\ LET price == SidePrice(markets[pc.i], "YES")
       IN  trades' = Append(trades,
               [id |-> TradeId(Len(trades) + 1), userId |-> pc.caller,
                marketId |-> JsNumber(pc.i), side |-> "YES",
                shares |-> SharesFor(pc.amount, price), price |-> price,
                amount |-> pc.amount])
    /\ pc' = NotRunning
    /\ UNCHANGED <<users, positions, markets, uuid, now, thrown, inflight>>

\* Lines 246-259: the position is found and user.balance += payout
SellStarts ==
    /\ Between
    /\ \E caller \in UserIds, positionId \in PositionIdInputs :
          LET whole == sell(caller, positionId)
              idx == FindPosition(positions[caller], positionId)
              pos == positions[caller][idx]
              currentPrice == SidePrice(markets[LookupMarket(pos.marketId).idx], pos.side)
          IN  /\ whole.response.status = 200
              /\ users' = [users EXCEPT ![UserIndex(caller)].balance =
                              Credit(@, Payout(pos.shares, currentPrice))]
              /\ pc' = [line |-> 260, i |-> idx, caller |-> caller,
                        amount |-> JsUndefined, whole |-> whole]
    /\ UNCHANGED <<positions, markets, trades, uuid, now, thrown, inflight>>

\* Lines 260-261: user.wins++ or user.losses++
SellLine260 ==
    /\ pc.line = 260
    /\ LET pos == positions[pc.caller][pc.i]
           currentPrice == SidePrice(markets[LookupMarket(pos.marketId).idx], pos.side)
           won == PriceAboveAvg(currentPrice, pos.avg)
       IN  users' = [users EXCEPT
                        ![UserIndex(pc.caller)].wins = IF won THEN @ + 1 ELSE @,
                        ![UserIndex(pc.caller)].losses = IF won THEN @ ELSE @ + 1]
    /\ pc' = [pc EXCEPT !.line = 263]
    /\ UNCHANGED <<positions, markets, trades, uuid, now, thrown, inflight>>

\* Lines 263-265: positions.splice(idx, 1) and the return
SellLine263 ==
    /\ pc.line = 263
    /\ positions' = [positions EXCEPT ![pc.caller] = RemoveAt(@, pc.i)]
    /\ pc' = NotRunning
    /\ UNCHANGED <<users, markets, trades, uuid, now, thrown, inflight>>

HandlerStepsRegister == Between /\ Register

NextHandlerSteps ==
    \/ HandlerStepsRegister
    \/ BuyStarts
    \/ BuyLine209
    \/ BuyLine212
    \/ BuyLine231
    \/ SellStarts
    \/ SellLine260
    \/ SellLine263

SpecHandlerSteps == Init /\ [][NextHandlerSteps]_vars

\* ================================================================== claims
\* Shorthands of the claims: the values of the code's unit as model values,
\* and the parts of a handler's result.
Money(n) == JsNumber(n * Hundred)

BalanceOf(us, id) == us[UserIndex(id)].balance

\* The handler left the db as it found it.
DbUntouched(r) ==
    /\ r.users = users
    /\ r.positions = positions
    /\ r.markets = markets
    /\ r.trades = trades

\* The market a position is on.
MarketOf(pos) == LookupMarket(pos.marketId).idx

\* ---------------------------------------------------------------------- C1
\* C1: in every reachable state every user's balance is a number >= 0.
\* The code breaks it: a trade whose body has no amount passes
\* `amount <= 0 || amount > user.balance` and leaves the balance NaN.
C1_BalanceNonNegative ==
    \A i \in 1 .. Len(users) : IsNum(users[i].balance) /\ users[i].balance.n >= 0

\* ---------------------------------------------------------------------- C2
\* C2: every accepted Buy leaves the balance at the old balance minus the
\* amount, returns floor(amount * 100 / price) shares, price being the
\* market's yes for YES and no for NO, and returns the new balance.
\* (A sum or quotient with an operand that is not a number is NaN.)
\* The code breaks it where the quotient of doubles falls below an integer:
\* 1.20 spent at 40 buys Math.floor(1.2 / 0.4) = 2 shares, and
\* floor(1.20 * 100 / 40) is 3.
C2_BuyDebitsAndGrantsShares ==
    \A caller \in UserIds, marketId \in MarketIdInputs, side \in SideInputs,
       amount \in AmountInputs :
        LET r == trade(caller, marketId, side, amount)
            old == BalanceOf(users, caller)
            m == markets[LookupMarket(marketId).idx]
            price == IF side = "YES" THEN m.yes ELSE m.no
        IN  r.response.status = 200 =>
              /\ BalanceOf(r.users, caller) =
                    IF IsNum(old) /\ IsNum(amount) THEN JsNumber(old.n - amount.n)
                    ELSE NaN
              /\ r.response.shares =
                    IF IsNum(amount) THEN JsNumber(amount.n \div price) ELSE NaN
              /\ r.response.balance = BalanceOf(r.users, caller)

\* What holds of every accepted Buy: the debit and the returned balance are
\* as C2 says, and the shares are floor(amount * 100 / price) or one less.
C2_BuyDebitsAndGrantsAtMost ==
    \A caller \in UserIds, marketId \in MarketIdInputs, side \in SideInputs,
       amount \in AmountInputs :
        LET r == trade(caller, marketId, side, amount)
            old == BalanceOf(users, caller)
            m == markets[LookupMarket(marketId).idx]
            price == IF side = "YES" THEN m.yes ELSE m.no
        IN  r.response.status = 200 =>
              /\ BalanceOf(r.users, caller) =
                    IF IsNum(old) /\ IsNum(amount) THEN JsNumber(old.n - amount.n)
                    ELSE NaN
              /\ IF IsNum(amount)
                 THEN r.response.shares \in
                        {JsNumber(amount.n \div price), JsNumber(amount.n \div price - 1)}
                 ELSE r.response.shares = NaN
              /\ r.response.balance = BalanceOf(r.users, caller)

\* The scenario of the spec: 20 spent on YES at 40 buys 50 shares and leaves 9980.
C2_Witness ==
    \E i \in 1 .. Len(users), k \in 1 .. Len(trades) :
        /\ trades[k].userId = users[i].id
        /\ trades[k].amount = Money(20)
        /\ trades[k].price = JsNumber(40)
        /\ trades[k].shares = JsNumber(50)
        /\ users[i].balance = Money(9980)

\* ---------------------------------------------------------------------- C3
\* C3: a Buy with a side outside {YES, NO}, an amount <= 0, an amount above
\* the balance, or a marketId that names no market changes nothing.
\* The code breaks it for marketId "length": db.markets["length"] is truthy,
\* the balance is debited and the handler then throws.
C3_RejectedBuyChangesNothing ==
    \A caller \in UserIds, marketId \in MarketIdInputs, side \in SideInputs,
       amount \in AmountInputs :
        (\/ side \notin {"YES", "NO"}
         \/ (IsNum(amount) /\ amount.n <= 0)
         \/ (IsNum(amount) /\ IsNum(BalanceOf(users, caller))
               /\ amount.n > BalanceOf(users, caller).n)
         \/ LookupMarket(marketId).kind # "market")
        => DbUntouched(trade(caller, marketId, side, amount))

\* ---------------------------------------------------------------------- C8
\* C8: a user never holds two open positions on the same market and side.
\* The code breaks it: marketId 0 and marketId "0" are the same market, and
\* `p.marketId === marketId` keeps their positions apart.
C8_OnePositionPerMarketSide ==
    \A id \in UserIds :
        \A i, j \in 1 .. Len(positions[id]) :
            (/\ MarketOf(positions[id][i]) = MarketOf(positions[id][j])
             /\ positions[id][i].side = positions[id][j].side)
            => i = j

\* ---------------------------------------------------------------------- C9
\* C9: every open position has a share count that is an integer >= 1.
\* The code breaks it: 0.01 spent at a price of 40 opens a position of 0 shares.
C9_SharesPositive ==
    \A id \in UserIds :
        \A i \in 1 .. Len(positions[id]) :
            IsNum(positions[id][i].shares) /\ positions[id][i].shares.n >= 1

\* --------------------------------------------------------------------- C10
\* C10: a Buy with a side in {YES, NO}, a marketId that names a market and
\* 0 < amount <= balance is accepted and debits the whole amount, whatever
\* number of shares it buys.
C10_ValidBuyAccepted ==
    \A caller \in UserIds, marketId \in MarketIdInputs, side \in {"YES", "NO"},
       amount \in AmountInputs :
        LET old == BalanceOf(users, caller)
            r == trade(caller, marketId, side, amount)
        IN  (/\ LookupMarket(marketId).kind = "market"
             /\ IsNum(amount) /\ IsNum(old)
             /\ 0 < amount.n /\ amount.n <= old.n)
            => /\ r.response.status = 200
               /\ BalanceOf(r.users, caller) = JsNumber(old.n - amount.n)

\* A Buy of 0.01 at a price above 1 was accepted: 0 shares, 0.01 debited.
C10_Witness ==
    \E i \in 1 .. Len(users), k \in 1 .. Len(trades) :
        /\ trades[k].userId = users[i].id
        /\ trades[k].amount = JsNumber(1)
        /\ trades[k].shares = JsNumber(0)
        /\ users[i].balance = JsNumber(StartBalance - 1)

\* ---------------------------------------------------------------------- C4
\* C4: the check `amount <= balance` and the debit of a Buy are one step.
\* Whenever a Buy in flight is handled and accepted, its amount was within
\* the balance it was debited from, and every other Buy of the same user in
\* flight at that moment that also was within that balance, but not together
\* with the accepted one, is from then on refused as 'Invalid amount'.
C4_Accepted(r1) ==
    /\ r1.route = "trade"
    /\ inflight' = inflight \ {r1}
    /\ Len(trades') = Len(trades) + 1

C4_BuyCheckAndDebitAreOneStep ==
    [][\A r1 \in inflight :
          C4_Accepted(r1) =>
             LET b == BalanceOf(users, r1.user)
             IN  /\ IsNum(b)
                 /\ r1.amount.n <= b.n
                 /\ BalanceOf(users', r1.user) = JsNumber(b.n - r1.amount.n)
                 /\ \A r2 \in inflight \ {r1} :
                       (/\ r2.route = "trade"
                        /\ r2.user = r1.user
                        /\ r2.amount.n <= b.n
                        /\ r1.amount.n + r2.amount.n > b.n)
                       => (Handle(r2).response.error = "Invalid amount")']_vars

\* A second Buy that arrived while another request was in flight is still
\* in flight after a Buy of the same user was accepted: each is within a
\* fresh balance, both together are not, and the second will be refused.
C4_Witness ==
    \E r2 \in inflight, k \in 1 .. Len(trades) :
        /\ r2.route = "trade"
        /\ r2.n = 2
        /\ trades[k].userId = r2.user
        /\ r2.amount.n <= StartBalance
        /\ trades[k].amount.n + r2.amount.n > StartBalance
        /\ BalanceOf(users, r2.user) = JsNumber(StartBalance - trades[k].amount.n)
        /\ Handle(r2).response.error = "Invalid amount"

\* ---------------------------------------------------------------------- C5
\* C5: an accepted Sell of a position of s shares pays s * p / 100, p being
\* the current price of the position's side on the position's market; the
\* balance grows by the payout, the new balance is returned, the position
\* leaves the user's open positions and every other position stays.
C5_SellPaysCurrentPrice ==
    \A caller \in UserIds, positionId \in PositionIdInputs :
        LET r == sell(caller, positionId)
            ps == positions[caller]
            old == BalanceOf(users, caller)
        IN  r.response.status = 200 =>
              \E idx \in 1 .. Len(ps) :
                 LET pos == ps[idx]
                     m == markets[MarketOf(pos)]
                     p == IF pos.side = "YES" THEN m.yes ELSE m.no
                     payout == IF IsNum(pos.shares) THEN JsNumber(pos.shares.n * p)
                               ELSE NaN
                 IN  /\ pos.id = positionId
                     /\ r.response.payout = payout
                     /\ BalanceOf(r.users, caller) =
                           IF IsNum(old) /\ IsNum(payout)
                           THEN JsNumber(old.n + payout.n) ELSE NaN
                     /\ r.response.balance = BalanceOf(r.users, caller)
                     /\ r.positions[caller] = SelectSeq(ps, LAMBDA q : q.id # positionId)
                     /\ \A other \in UserIds \ {caller} :
                           r.positions[other] = positions[other]

\* 50 shares bought at 40 for 20 were sold at 41: 9980 + 20.50, no position left.
C5_Witness ==
    \E i \in 1 .. Len(users) :
        /\ users[i].balance = JsNumber(9980 * Hundred + 50 * 41)
        /\ positions[users[i].id] = <<>>
        /\ users[i].wins = 1

\* ---------------------------------------------------------------------- C6
\* C6: an accepted Sell adds 1 to wins when the current price of the side is
\* above the position's average cost, and 1 to losses otherwise (also when
\* the two are equal); the other counter stays.
C6_SellCountsWinOrLoss ==
    \A caller \in UserIds, positionId \in PositionIdInputs :
        LET r == sell(caller, positionId)
            ps == positions[caller]
            u == GetUser(caller)
            v == r.users[UserIndex(caller)]
        IN  r.response.status = 200 =>
              \E idx \in 1 .. Len(ps) :
                 LET pos == ps[idx]
                     m == markets[MarketOf(pos)]
                     p == IF pos.side = "YES" THEN m.yes ELSE m.no
                     above == pos.avg.t = "number" /\ p * pos.avg.den > pos.avg.num
                 IN  /\ pos.id = positionId
                     /\ above => v.wins = u.wins + 1 /\ v.losses = u.losses
                     /\ ~above => v.wins = u.wins /\ v.losses = u.losses + 1

\* 50 shares bought at 40 were sold at 40: the balance is back at 10000 and
\* the sale counts as a loss.
C6_Witness ==
    \E i \in 1 .. Len(users) :
        /\ users[i].balance = JsNumber(StartBalance)
        /\ users[i].losses = 1
        /\ users[i].wins = 0
        /\ \E k \in 1 .. Len(trades) :
              /\ trades[k].userId = users[i].id
              /\ trades[k].shares = JsNumber(50)
              /\ trades[k].price = JsNumber(40)

\* ---------------------------------------------------------------------- C7
\* C7: a Sell whose positionId is not the id of an open position of the
\* caller, the id of another user's open position included, is answered
\* 'Position not found' and changes nothing.
C7_SellOfForeignPositionRejected ==
    \A caller \in UserIds, positionId \in PositionIdInputs :
        LET r == sell(caller, positionId)
            ps == positions[caller]
        IN  (\A i \in 1 .. Len(ps) : ps[i].id # positionId)
            => /\ r.response = ErrorResponse(404, "Position not found")
               /\ DbUntouched(r)

\* Two users hold a position each, and each is refused the other's.
C7_Witness ==
    \E a, b \in UserIds :
        /\ a # b
        /\ Len(positions[a]) = 1
        /\ Len(positions[b]) = 1
        /\ sell(a, positions[b][1].id).response.error = "Position not found"
        /\ sell(b, positions[a][1].id).response.error = "Position not found"

\* --------------------------------------------------------------------- C11
\* The quotient (oldAvg * oldShares + price * shares) / (oldShares + shares)
\* as a reduced fraction; NaN when an operand is not a number or when it is 0 / 0.
WeightedAverage(oldAvg, oldShares, price, shares) ==
    IF oldAvg.t = "number" /\ IsNum(oldShares) /\ IsNum(price) /\ IsNum(shares)
       /\ oldShares.n + shares.n > 0
    THEN Rat(oldAvg.num * oldShares.n + price.n * shares.n * oldAvg.den,
             oldAvg.den * (oldShares.n + shares.n))
    ELSE RatNaN

\* What C11 says of one accepted Buy of the caller.
MergesOrOpens(caller, marketId, side, amount) ==
    LET r == trade(caller, marketId, side, amount)
        ps == positions[caller]
        qs == r.positions[caller]
        i == LookupMarket(marketId).idx
        price == JsNumber(IF side = "YES" THEN markets[i].yes ELSE markets[i].no)
        shares == r.response.shares
        held == {k \in 1 .. Len(ps) : MarketOf(ps[k]) = i /\ ps[k].side = side}
    IN  r.response.status = 200 =>
          IF held # {}
          THEN \E k \in held :
                  qs = [ps EXCEPT
                          ![k].shares = JsAdd(ps[k].shares, shares),
                          ![k].avg = WeightedAverage(ps[k].avg, ps[k].shares, price, shares)]
          ELSE /\ Len(qs) = Len(ps) + 1
               /\ SubSeq(qs, 1, Len(ps)) = ps
               /\ qs[Len(qs)].side = side
               /\ MarketOf(qs[Len(qs)]) = i
               /\ qs[Len(qs)].shares = shares
               /\ qs[Len(qs)].avg = AvgOfPrice(price)

\* C11: an accepted Buy on a (market, side) the user holds a position on
\* leaves that position with shares = oldShares + shares and
\* avg = (oldAvg * oldShares + price * shares) / (oldShares + shares), price
\* being the price of this fill; an accepted Buy on a (market, side) the user
\* holds no position on opens a position with the shares bought and avg = price.
\* The code breaks it for a marketId "0" when the position was opened with
\* marketId 0 (and the other way round): the Buy opens a second position.
C11_MergeWeightedAverage ==
    \A caller \in UserIds, marketId \in MarketIdInputs, side \in Sides,
       amount \in AmountInputs :
        MergesOrOpens(caller, marketId, side, amount)

\* The same for the Buys whose marketId is a number, as the positions held
\* were opened with: the code merges and opens as C11 says.
C11_MergeOfNumberIds ==
    (\A id \in UserIds : \A k \in 1 .. Len(positions[id]) :
        IsNum(positions[id][k].marketId))
    => \A caller \in UserIds, marketId \in MarketIdInputs, side \in Sides,
          amount \in AmountInputs :
           IsNum(marketId) => MergesOrOpens(caller, marketId, side, amount)

\* 50 shares bought at 40 and 48 bought at 41 are one position of 98 shares
\* at the average cost 3968 / 98.
C11_MergedState ==
    \E id \in UserIds : \E k \in 1 .. Len(positions[id]) :
        /\ positions[id][k].shares = JsNumber(98)
        /\ positions[id][k].avg = Rat(40 * 50 + 41 * 48, 98)
        /\ IsNum(positions[id][k].marketId)

\* --------------------------------------------------------------------- C12
\* The Buys of a user in the log, oldest first.
FillsOf(id) == SelectSeq(trades, LAMBDA t : t.userId = id)

\* Two fills on the same market and side.
SamePair(f, g) == MarketOf(f) = MarketOf(g) /\ f.side = g.side

\* The same amount filled at the same price.
SameFill(f, g) == SamePair(f, g) /\ f.amount = g.amount /\ f.price = g.price

\* The user never sold, and bought twice, both times on the same pair.
BoughtTwice(id) ==
    /\ GetUser(id).wins + GetUser(id).losses = 0
    /\ Len(FillsOf(id)) = 2
    /\ SamePair(FillsOf(id)[1], FillsOf(id)[2])

\* C12: two users who started without a position on a (market, side) and
\* got the same two fills on it, one in the order a1 at p1, a2 at p2 and the
\* other in the order a2 at p2, a1 at p1, hold the same position: one
\* position, with the shares of both fills and the share-weighted average of
\* p1 and p2 as average cost.
C12_MergeOrderIndependent ==
    \A u, v \in UserIds :
        (/\ BoughtTwice(u)
         /\ BoughtTwice(v)
         /\ SameFill(FillsOf(u)[1], FillsOf(v)[2])
         /\ SameFill(FillsOf(u)[2], FillsOf(v)[1]))
        => LET f == FillsOf(u)[1]
               g == FillsOf(u)[2]
               shares == JsAdd(f.shares, g.shares)
               avg == WeightedAverage(AvgOfPrice(f.price), f.shares, g.price, g.shares)
           IN  /\ Len(positions[u]) = 1
               /\ Len(positions[v]) = 1
               /\ positions[u][1].shares = shares
               /\ positions[v][1].shares = shares
               /\ positions[u][1].avg = avg
               /\ positions[v][1].avg = avg
               /\ positions[u][1].side = positions[v][1].side
               /\ MarketOf(positions[u][1]) = MarketOf(positions[v][1])

\* The same for the users whose Buys all name the market by its index: the
\* code leaves them the same position in both orders.
C12_MergeOrderOfNumberIds ==
    \A u, v \in UserIds :
        (/\ BoughtTwice(u)
         /\ BoughtTwice(v)
         /\ \A k \in 1 .. 2 : IsNum(FillsOf(u)[k].marketId) /\ IsNum(FillsOf(v)[k].marketId)
         /\ SameFill(FillsOf(u)[1], FillsOf(v)[2])
         /\ SameFill(FillsOf(u)[2], FillsOf(v)[1]))
        => LET f == FillsOf(u)[1]
               g == FillsOf(u)[2]
               shares == JsAdd(f.shares, g.shares)
               avg == WeightedAverage(AvgOfPrice(f.price), f.shares, g.price, g.shares)
           IN  /\ Len(positions[u]) = 1
               /\ Len(positions[v]) = 1
               /\ positions[u][1].shares = shares
               /\ positions[v][1].shares = shares
               /\ positions[u][1].avg = avg
               /\ positions[v][1].avg = avg
               /\ positions[u][1].side = positions[v][1].side
               /\ positions[u][1].marketId = positions[v][1].marketId

\* One user bought for 20 at 40 and then for 30 at 41, the other for 30 at 41
\* and then for 20 at 40.
C12_BothOrders ==
    \E u, v \in UserIds :
        /\ BoughtTwice(u)
        /\ BoughtTwice(v)
        /\ SameFill(FillsOf(u)[1], FillsOf(v)[2])
        /\ SameFill(FillsOf(u)[2], FillsOf(v)[1])
        /\ FillsOf(u)[1].amount = Money(20)
        /\ FillsOf(u)[1].price = JsNumber(40)
        /\ FillsOf(u)[2].amount = Money(30)
        /\ FillsOf(u)[2].price = JsNumber(41)
        /\ \A k \in 1 .. 2 : IsNum(FillsOf(u)[k].marketId) /\ IsNum(FillsOf(v)[k].marketId)
        /\ Len(positions[u]) = 1
        /\ Len(positions[v]) = 1
        /\ positions[u][1].shares = positions[v][1].shares
        /\ positions[u][1].avg = positions[v][1].avg

\* --------------------------------------------------------------------- C13
\* The caller sells the position the Buy r on (marketId, side) has just left.
SellBack(r, caller, marketId, side) ==
    LET ps == r.positions[caller]
    IN  sellOn(r, caller, ps[FindExisting(ps, marketId, side)].id)

\* The net worth of the caller in the db a handler leaves.
NetWorthIn(r, caller) ==
    NetWorth(r.users[UserIndexIn(r.users, caller)], r.positions[caller], r.markets)

\* after <= before, and before - after is less than the price of one share.
LossWithin(before, after, price) ==
    JsLe(after, before) /\ JsGt(JsAdd(after, price), before)

\* C13: every accepted Buy has shares * price <= amount * 100, and a Sell of
\* the position it leaves, right after it and at the same price, returns a
\* balance, and leaves a net worth, that is no higher than before the Buy and
\* lower by less than the price of one share.
\* The code breaks it where the quotient of doubles falls below an integer
\* (1.20 spent at 40 buys 2 shares, sold for 0.80: the loss is the price of
\* one share), and for a Buy without an amount (C1), whose shares and debit
\* are NaN; the sentence about the balance is also wrong of a Buy that
\* merges, where the Sell pays the shares held before as well.
C13_BuyGrantsNoValue ==
    \A caller \in UserIds, marketId \in MarketIdInputs, side \in Sides,
       amount \in AmountInputs :
        LET r == trade(caller, marketId, side, amount)
            rs == SellBack(r, caller, marketId, side)
            price == SidePrice(markets[LookupMarket(marketId).idx], side)
        IN  r.response.status = 200 =>
              /\ JsLe(JsMul(r.response.shares, price), amount)
              /\ rs.response.status = 200
              /\ LossWithin(BalanceOf(users, caller), rs.response.balance, price)
              /\ LossWithin(NetWorthIn(Cur, caller), NetWorthIn(rs, caller), price)

\* The caller's balance and shares are numbers.
HoldsNumbers(caller) ==
    /\ IsNum(BalanceOf(users, caller))
    /\ \A k \in 1 .. Len(positions[caller]) : IsNum(positions[caller][k].shares)

\* after <= before, and before - after is at most the price of one share.
LossAtMost(before, after, price) ==
    JsLe(after, before) /\ JsLe(before, JsAdd(after, price))

\* What holds of a Buy with an amount that is a number by a user whose
\* balance and shares are numbers: shares * price <= amount * 100, and the
\* net worth after Buy and Sell is no higher than before and lower by at
\* most the price of one share; so is the balance when the Buy opened the
\* position.
C13_BuyOfNumbersLosesAtMostOneShare ==
    \A caller \in UserIds, marketId \in MarketIdInputs, side \in Sides,
       amount \in AmountInputs :
        LET r == trade(caller, marketId, side, amount)
            rs == SellBack(r, caller, marketId, side)
            price == SidePrice(markets[LookupMarket(marketId).idx], side)
        IN  (r.response.status = 200 /\ IsNum(amount) /\ HoldsNumbers(caller)) =>
              /\ JsLe(JsMul(r.response.shares, price), amount)
              /\ rs.response.status = 200
              /\ FindExisting(positions[caller], marketId, side) = 0 =>
                    LossAtMost(BalanceOf(users, caller), rs.response.balance, price)
              /\ LossAtMost(NetWorthIn(Cur, caller), NetWorthIn(rs, caller), price)

\* 20 spent on NO at 60 bought 33 shares, sold right away for 19.80: the
\* balance is 0.20 below the 10000 it was.
C13_BoughtAndSoldBack ==
    \E i \in 1 .. Len(users) :
        /\ users[i].balance = JsNumber(StartBalance - 20)
        /\ users[i].losses = 1
        /\ positions[users[i].id] = <<>>
        /\ \E k \in 1 .. Len(trades) :
              /\ trades[k].userId = users[i].id
              /\ trades[k].side = "NO"
              /\ trades[k].price = JsNumber(60)
              /\ trades[k].shares = JsNumber(33)

\* --------------------------------------------------------------------- C14
\* C14: in every reachable state every market has an integer yes price with
\* 1 <= yes <= 99 and no = 100 - yes (so 1 <= no <= 99), whatever ticks and
\* trades came before.
C14_PricesWithinBounds ==
    \A i \in MarketIdx :
        /\ markets[i].yes \in 1 .. 99
        /\ markets[i].no = 100 - markets[i].yes
        /\ markets[i].no \in 1 .. 99

\* One market was kept at 99 and another at 1 by the last tick (each was
\* there before it, and the tick drew the change away from 50), after a Buy.
C14_KeptAtBothEnds ==
    /\ now > FreeTicks
    /\ Len(trades) > 0
    /\ \E i, j \in MarketIdx :
          /\ markets[i].yes = 99
          /\ markets[i].history[HistoryLen - 1] = 99
          /\ markets[j].yes = 1
          /\ markets[j].history[HistoryLen - 1] = 1

\* --------------------------------------------------------------------- C15
Consistent(m) == m.yes + m.no = 100

\* C15: whenever a request can be served (a leaderboard or a market snapshot
\* read, a Buy, a Sell), every market has yes + no = 100; every step of a
\* handler starts from such a state, and the price a Buy records is the
\* price the side of its market has before and after the step.
C15_HandlersSeeWholeTicks ==
    /\ [](Idle => \A i \in MarketIdx : Consistent(markets[i]))
    /\ [][(users' # users \/ positions' # positions \/ trades' # trades) =>
            /\ \A i \in MarketIdx : Consistent(markets[i])
            /\ Len(trades') > Len(trades) =>
                  LET t == trades'[Len(trades')]
                  IN  /\ t.price = SidePrice(markets[MarketOf(t)], t.side)
                      /\ t.price = SidePrice(markets'[MarketOf(t)], t.side)]_vars

\* The callback is between lines 105 and 106 of a market whose yes it has
\* moved, so yes + no # 100, while a user holds a position in that market
\* bought after an earlier tick at a price that tick set.
C15_MidTick ==
    /\ pc.line = 106
    /\ now = 2
    /\ ~Consistent(markets[pc.i])
    /\ \E k \in 1 .. Len(trades) :
          /\ MarketOf(trades[k]) = pc.i
          /\ trades[k].price.n \notin {40, 60}
          /\ \E j \in 1 .. Len(positions[trades[k].userId]) :
                positions[trades[k].userId][j].marketId = trades[k].marketId

\* --------------------------------------------------------------------- C16
\* C16: the history of every market has 30 entries in every state; a tick
\* drops the first entry, keeps the others in order and appends the new yes
\* price (so the last entry is the yes price from the first tick on, and
\* what is left of the startup entries are the first 30 - ticks entries),
\* and no other step touches it.
C16_HistoryIsRingOfThirty ==
    /\ [](\A i \in MarketIdx :
            /\ Len(markets[i].history) = 30
            /\ now > 0 => markets[i].history[30] = markets[i].yes
            /\ \A k \in 1 .. 30 : k <= 30 - now => markets[i].history[k] = StartHistory)
    /\ [][\A i \in MarketIdx :
             IF now' # now
             THEN markets'[i].history =
                     Tail(markets[i].history) \o <<markets'[i].yes>>
             ELSE markets'[i].history = markets[i].history]_vars

\* After 30 ticks the histories are the 30 prices of the run, oldest first:
\* 9, 8, ... down to 1 and then 1, and 90, 91, ... up to 99 and then 99.
C16_ThirtyTicksOfHistory ==
    /\ now = 30
    /\ \E i, j \in MarketIdx :
          /\ markets[i].history = [k \in 1 .. 30 |-> Max(1, LowestStartYes - k)]
          /\ markets[j].history = [k \in 1 .. 30 |-> Min(99, HighestStartYes + k)]

\* --------------------------------------------------------------------- C17
\* What the positions ps are worth at the prices of ms, in hundredths:
\* for each, shares times the yes price (YES) or the no price (NO) of its
\* market.  With the arithmetic of the language: a share count that is not a
\* number makes the sum not a number.
RECURSIVE HeldWorth(_, _)
HeldWorth(ps, ms) ==
    IF ps = <<>> THEN JsNumber(0)
    ELSE LET p == Head(ps)
             m == ms[MarketOf(p)]
         IN  JsAdd(JsMul(p.shares, JsNumber(IF p.side = "YES" THEN m.yes ELSE m.no)),
                   HeldWorth(Tail(ps), ms))

EntriesOf(board, username) == {k \in 1 .. Len(board) : board[k].username = username}

\* What the tick from ms to ms2 adds to the worth of ps.
RECURSIVE TickGain(_, _, _)
TickGain(ps, ms, ms2) ==
    IF ps = <<>> THEN 0
    ELSE LET p == Head(ps)
             i == MarketOf(p)
             move == IF p.side = "YES" THEN ms2[i].yes - ms[i].yes
                     ELSE ms2[i].no - ms[i].no
         IN  p.shares.n * move + TickGain(Tail(ps), ms, ms2)

\* C17: in every state the leaderboard has, for every user, an entry whose
\* net worth is the balance plus shares * price over the open positions at
\* the prices of that state; and across a tick the reported net worth of a
\* user whose figures are numbers moves by shares * (price after - price
\* before) over the positions.
C17_NetWorthAtCurrentPrices ==
    /\ [](\A k \in 1 .. Len(users) :
            \E e \in EntriesOf(leaderboard, users[k].username) :
                leaderboard[e].balance =
                    JsAdd(users[k].balance, HeldWorth(positions[users[k].id], markets)))
    /\ [][now' # now =>
            \A k \in 1 .. Len(users) :
                LET name == users[k].username
                    ps == positions[users[k].id]
                    before == leaderboardOf(users, positions, markets)
                    after == leaderboardOf(users', positions', markets')
                IN  \A e \in EntriesOf(before, name) :
                        IsNum(before[e].balance) =>
                            \E f \in EntriesOf(after, name) :
                                after[f].balance =
                                    JsNumber(before[e].balance.n
                                             + TickGain(ps, markets, markets'))]_vars

\* After a tick a user holds a position whose market moved away from the
\* price paid, and the leaderboard reports a net worth that is a number and
\* differs from both the balance and the starting balance.
C17_RepricedHolding ==
    /\ now > 0
    /\ \E k \in 1 .. Len(users) :
          LET u == users[k]
              ps == positions[u.id]
          IN  /\ Len(ps) > 0
              /\ IsNum(ps[1].shares) /\ ps[1].shares.n > 0
              /\ ~(AvgOfPrice(SidePrice(markets[MarketOf(ps[1])], ps[1].side)) = ps[1].avg)
              /\ \E e \in EntriesOf(leaderboard, u.username) :
                    /\ IsNum(leaderboard[e].balance)
                    /\ leaderboard[e].balance # u.balance
                    /\ leaderboard[e].balance # JsNumber(StartBalance)

\* --------------------------------------------------------------------- C18
\* The place of a username in the order of registration.
RegisteredAt(username) == CHOOSE k \in 1 .. Len(users) : users[k].username = username

\* The parts of the claim that do not compare net worths: every user is
\* listed at most once, and the entry at index i has rank i.
ListedOnceAndRanked(board) ==
    /\ \A i, j \in 1 .. Len(board) : board[i].username = board[j].username => i = j
    /\ \A i \in 1 .. Len(board) : board[i].rank = i

\* C18: no entry of the leaderboard comes after an entry with a smaller net
\* worth; entries with equal net worth are in the order of registration;
\* every user is listed at most once; the entry at index i has rank i.
C18_BoardOrdered ==
    LET board == leaderboard
    IN  /\ ListedOnceAndRanked(board)
        /\ \A i, j \in 1 .. Len(board) :
              i < j =>
                /\ ~JsGt(board[j].balance, board[i].balance)
                /\ board[i].balance = board[j].balance =>
                      RegisteredAt(board[i].username) < RegisteredAt(board[j].username)

\* What the code keeps: when every net worth on the board is a number, each
\* entry is at least the next, ties are in the order of registration, users
\* are listed once and ranks are the indices.
C18_BoardOfNumbersOrdered ==
    LET board == leaderboard
    IN  (\A i \in 1 .. Len(board) : IsNum(board[i].balance)) =>
            /\ ListedOnceAndRanked(board)
            /\ \A i, j \in 1 .. Len(board) :
                  i < j =>
                    /\ board[i].balance.n >= board[j].balance.n
                    /\ board[i].balance.n = board[j].balance.n =>
                          RegisteredAt(board[i].username) < RegisteredAt(board[j].username)

\* Three users with three different net worths, all numbers, the last to
\* register on top.
C18_BoardSorted ==
    LET board == leaderboard
    IN  /\ Len(board) = 3
        /\ \A i \in 1 .. 3 : IsNum(board[i].balance)
        /\ board[1].balance.n > board[2].balance.n
        /\ board[2].balance.n > board[3].balance.n
        /\ board[1].username = users[3].username

\* --------------------------------------------------------------------- C19
\* r is a whole number of percent within half a point of wins out of n.
NearestPercent(r, wins, n) ==
    /\ r \in 0 .. 100
    /\ (2 * r - 1) * n <= 200 * wins
    /\ 200 * wins <= (2 * r + 1) * n

IsPrefix(s, t) == Len(s) <= Len(t) /\ SubSeq(t, 1, Len(s)) = s

\* What the handlers do to the log from this state, for every request.
HandlersKeepLog ==
    /\ \A caller \in Callers, marketId \in MarketIdInputs, side \in SideInputs,
          amount \in AmountInputs :
            LET r == trade(caller, marketId, side, amount)
            IN  IF r.response.status = 200
                THEN /\ Len(r.trades) = Len(trades) + 1
                     /\ IsPrefix(trades, r.trades)
                     /\ LET t == r.trades[Len(r.trades)]
                            m == markets[LookupMarket(marketId).idx]
                        IN  /\ t.userId = caller
                            /\ t.marketId = marketId
                            /\ t.side = side
                            /\ t.amount = amount
                            /\ t.price = JsNumber(IF side = "YES" THEN m.yes ELSE m.no)
                            /\ t.shares = r.response.shares
                ELSE r.trades = trades
    /\ \A caller \in Callers, positionId \in PositionIdInputs :
            sell(caller, positionId).trades = trades
    /\ \A k \in 1 .. Len(Registrations) :
            register(Registrations[k].username, Registrations[k].email).trades = trades

\* What a step does to the log.
LogGrowsAtEnd ==
    /\ IsPrefix(trades, trades')
    /\ Len(trades') <= Len(trades) + 1
    /\ (now' # now) => (trades' = trades)
    /\ (\E u \in UserIds : Len(positions'[u]) < Len(positions[u])) => (trades' = trades)
    /\ (Len(users') # Len(users)) => (trades' = trades)

\* C20: a Buy answered 200 leaves the log as it was plus one record, at the
\* end, with the Buy's user, market id, side and amount, the price of that
\* side of the market and the shares of the answer; a Buy answered anything
\* else, a Sell and a registration leave the log as it was; and over any
\* step the log keeps its records in place and grows by at most one, and by
\* none over a tick, a step that closes a position or a registration.
C20_TradeLogAppendOnly == [](HandlersKeepLog) /\ [][LogGrowsAtEnd]_vars

\* The log holds two Buys, in the order they were made, after a tick and a
\* Sell have happened.
C20_LogOfTwo ==
    /\ Len(trades) = 2
    /\ trades[1].id = TradeId(1)
    /\ trades[2].id = TradeId(2)
    /\ now > 0
    /\ \E k \in 1 .. Len(users) : users[k].wins + users[k].losses > 0

\* --------------------------------------------------------------------- C21
\* Over a step: an accepted Buy adds its amount to the volume of its market
\* and 1 to its participant count, and no market's volume or participant
\* count gets smaller.  Volumes are read as numbers.
VolumeGrows ==
    /\ Len(trades') > Len(trades) =>
          LET t == trades'[Len(trades')]
              i == MarketOf(t)
          IN  /\ ToNumber(markets'[i].vol) =
                     JsNumber(ToNumber(markets[i].vol).n + ToNumber(t.amount).n)
              /\ markets'[i].users = JsNumber(markets[i].users.n + 1)
    /\ \A i \in MarketIdx :
          /\ JsLe(markets[i].vol, markets'[i].vol)
          /\ JsLe(markets[i].users, markets'[i].users)

\* C21: every accepted Buy increases the volume of its market by exactly its
\* amount and the participant count by exactly 1, whoever traded the market
\* before, and no step decreases a market's volume or participant count.
C21_VolumeAndParticipantsGrow == [][VolumeGrows]_vars

\* What the code keeps: the same, in runs whose Buys all carry a number as
\* amount.
C21_VolumeGrowsByNumbers ==
    [][(\A k \in 1 .. Len(trades') : IsNum(trades'[k].amount)) => VolumeGrows]_vars

\* One user bought twice on market 0 with amounts that are numbers: the
\* volume is up by both amounts and the participant count by 2.
C21_TradedTwice ==
    /\ Len(trades) = 2
    /\ trades[1].userId = trades[2].userId
    /\ \A k \in 1 .. 2 : MarketOf(trades[k]) = 0 /\ IsNum(trades[k].amount)
    /\ markets[0].vol = JsNumber(StartVol + trades[1].amount.n + trades[2].amount.n)
    /\ markets[0].users = JsNumber(StartUsers + 2)

\* --------------------------------------------------------------------- C22
\* The db r has every user but caller as this state has them: the same
\* record (balance, wins, losses) and the same list of positions.
OthersUntouched(r, caller) ==
    /\ Len(r.users) = Len(users)
    /\ \A k \in 1 .. Len(users) :
          users[k].id # caller =>
              /\ r.users[k] = users[k]
              /\ r.positions[users[k].id] = positions[users[k].id]

\* C22: from every reachable state, whatever Buy or Sell a user sends
\* (accepted, refused or failed), every other user keeps balance, wins,
\* losses and positions.
C22_OthersKeepTheirState ==
    /\ \A caller \in UserIds, marketId \in MarketIdInputs, side \in SideInputs,
          amount \in AmountInputs :
            OthersUntouched(trade(caller, marketId, side, amount), caller)
    /\ \A caller \in UserIds, positionId \in PositionIdInputs :
            OthersUntouched(sell(caller, positionId), caller)

\* Two users: one holds a position, the other has bought and sold.
C22_TwoTraders ==
    /\ Len(users) = 2
    /\ \E j, k \in 1 .. 2 :
          /\ j # k
          /\ Len(positions[users[j].id]) > 0
          /\ users[j].balance # JsNumber(StartBalance)
          /\ users[k].wins + users[k].losses > 0

UniqueUsers ==
    \A i, j \in 1 .. Len(users) :
        i # j => /\ users[i].username # users[j].username
                 /\ users[i].email # users[j].email

\* What a registration with this body does from this state: refused without
\* a write when a user has its username or its email, and otherwise one more
\* user, with 10000, no win, no loss and an empty list of positions.
RegistersOnce(body) ==
    LET r == registerOn(Cur, body.username, body.email)
        taken == \E i \in 1 .. Len(users) :
                    \/ users[i].username = body.username.s
                    \/ users[i].email = body.email.s
    IN  IF taken
        THEN /\ r.response.status = 400
             /\ r.response.error = "User already exists"
             /\ r.users = users
             /\ r.positions = positions
        ELSE /\ r.response.status = 200
             /\ Len(r.users) = Len(users) + 1
             /\ SubSeq(r.users, 1, Len(users)) = users
             /\ LET u == r.users[Len(r.users)]
                IN  /\ u.username = body.username.s
                    /\ u.email = body.email.s
                    /\ u.balance = Money(10000)
                    /\ u.wins = 0
                    /\ u.losses = 0
                    /\ DOMAIN r.positions = DOMAIN positions \cup {u.id}
                    /\ r.positions[u.id] = <<>>
                    /\ \A id \in DOMAIN positions : r.positions[id] = positions[id]

\* C24: in every reachable state usernames and emails are unique, and every
\* registration is refused without a write when its username or email is
\* taken and adds exactly one fresh user otherwise.
C24_UniqueUsernamesAndEmails ==
    /\ UniqueUsers
    /\ \A body \in NewBodies : RegistersOnce(body)

\* What the code keeps: the same while usernames and emails are strings.
C24_UniqueStrings ==
    (\A i \in 1 .. Len(users) : users[i].usernameRef = 0 /\ users[i].emailRef = 0) =>
        /\ UniqueUsers
        /\ \A body \in NewBodies :
              body.username.ref = 0 /\ body.email.ref = 0 => RegistersOnce(body)

\* Two users with different strings as usernames and emails, one of them
\* holding a position: registrations with either username or either email are
\* refused from here.
C24_TwoRegistered ==
    /\ Len(users) = 2
    /\ \A i \in 1 .. 2 : users[i].usernameRef = 0 /\ users[i].emailRef = 0
    /\ \E i \in 1 .. 2 : Len(positions[users[i].id]) > 0

\* --------------------------------------------------------------------- C25
\* The ids of the positions open in ps.
OpenIds(ps) == UNION {{ps[u][k].id : k \in 1 .. Len(ps[u])} : u \in DOMAIN ps}

\* In every state: no id is held by two open positions, and a Sell of an id
\* that was issued and is open no more is refused with 'Position not found',
\* whoever sends it, and writes nothing.
ClosedStaysRefused ==
    /\ \A u, v \in DOMAIN positions :
          \A j \in 1 .. Len(positions[u]), k \in 1 .. Len(positions[v]) :
              positions[u][j].id = positions[v][k].id => u = v /\ j = k
    /\ OpenIds(positions) \subseteq 1 .. uuid
    /\ \A id \in (1 .. uuid) \ OpenIds(positions) :
          \A caller \in UserIds :
              LET r == sell(caller, id)
              IN  /\ r.response.status = 404
                  /\ r.response.error = "Position not found"
                  /\ DbUntouched(r)

\* Over a step: an id that was issued and is not open does not come back;
\* and when a user's wins + losses go up (an accepted Sell), one of the
\* user's positions is open no more, the balance is up by that position's
\* shares * price and nobody else's balance moved.
SoldOnce ==
    /\ \A id \in (1 .. uuid) \ OpenIds(positions) : id \notin OpenIds(positions')
    /\ \A k \in 1 .. Len(users) :
          users'[k].wins + users'[k].losses > users[k].wins + users[k].losses =>
              /\ users'[k].wins + users'[k].losses = users[k].wins + users[k].losses + 1
              /\ \E j \in 1 .. Len(positions[users[k].id]) :
                    LET pos == positions[users[k].id][j]
                        m == markets[MarketOf(pos)]
                        price == IF pos.side = "YES" THEN m.yes ELSE m.no
                    IN  /\ pos.id \notin OpenIds(positions')
                        /\ users'[k].balance =
                              JsAdd(users[k].balance, JsMul(pos.shares, JsNumber(price)))
              /\ \A j \in 1 .. Len(users) : j # k => users'[j] = users[j]

\* C25: a position is sold at most once.  An accepted Sell closes the
\* position and credits shares * price once; a closed id stays closed; and
\* every Sell of a closed id, by any user, is refused with 'Position not
\* found' and credits nothing.
C25_PositionSoldAtMostOnce == [](ClosedStaysRefused) /\ [][SoldOnce]_vars

\* Position 1 was sold and position 2 is open: Sells of 1 are refused from
\* here on.
C25_SoldAndOpen ==
    /\ uuid = 2
    /\ OpenIds(positions) = {2}
    /\ \E k \in 1 .. Len(users) : users[k].wins + users[k].losses = 1

\* --------------------------------------------------------------------- C26
\* C26: whenever a leaderboard call can be served, every net worth it
\* reports is that of a state between complete operations: 10000 for every
\* user in these runs, where a position is worth what was paid for it (a Buy
\* half applied shows 10000 less the amount, a Sell half applied 10000 plus
\* the payout); and the lines of a handler, run one after the other, leave
\* the db the whole handler leaves.
C26_BoardSeesWholeOperations ==
    /\ [](Between =>
            \A e \in 1 .. Len(leaderboard) : leaderboard[e].balance = Money(10000))
    /\ [][pc # NotRunning /\ pc' = NotRunning =>
            /\ users' = pc.whole.users
            /\ positions' = pc.whole.positions
            /\ markets' = pc.whole.markets
            /\ trades' = pc.whole.trades
            /\ uuid' = pc.whole.uuid]_vars

\* A Sell is at line 263: the payout is credited and the position is still
\* in the list, so a board computed here would count the position twice;
\* another user holds a position.
C26_MidSell ==
    /\ pc.line = 263
    /\ Len(users) = 2
    /\ \A k \in 1 .. 2 : Len(positions[users[k].id]) > 0
    /\ \E e \in 1 .. Len(leaderboard) : JsGt(leaderboard[e].balance, Money(10000))

\* --------------------------------------------------------------------- C27
\* The fields of a market the price process writes, and those the trade
\* handler writes.
PriceFields(m) == <<m.yes, m.no, m.history, m.lastUpdate>>
TradeFields(m) == <<m.vol, m.users>>

\* Over a step: a tick leaves volume, participant count and id of every
\* market; an accepted Buy leaves the price fields of every market and every
\* field of every market but the traded one; any other step (a Sell, a
\* registration, a Buy that fails) leaves the markets as they are.
WritersKeepToTheirFields ==
    /\ now' # now =>
          \A i \in MarketIdx :
              TradeFields(markets'[i]) = TradeFields(markets[i]) /\ markets'[i].id = markets[i].id
    /\ Len(trades') > Len(trades) =>
          \A i \in MarketIdx :
              /\ PriceFields(markets'[i]) = PriceFields(markets[i])
              /\ markets'[i].id = markets[i].id
              /\ i # MarketOf(trades'[Len(trades')]) => markets'[i] = markets[i]
    /\ (now' = now /\ Len(trades') = Len(trades)) => markets' = markets

\* C27: market fields are written by their writers only (the tick: yes, no,
\* history, lastUpdate; an accepted Buy: volume and participant count of its
\* market; a Sell: none), and in every state the table has the markets it
\* started with, each with its index as id.
C27_MarketFieldsHaveOneWriter ==
    /\ [](DOMAIN markets = MarketIdx /\ \A i \in MarketIdx : markets[i].id = i)
    /\ [][WritersKeepToTheirFields]_vars

\* After a tick, a Buy and a Sell: market 0 has moved in price and in volume,
\* market 1 has its starting volume.
C27_AllWritersActed ==
    /\ now > 0
    /\ markets[0].yes # 40
    /\ markets[0].vol # JsNumber(StartVol)
    /\ markets[1].vol = JsNumber(StartVol)
    /\ \E k \in 1 .. Len(users) : users[k].wins + users[k].losses > 0

\* --------------------------------------------------------------------- C28
\* The order of the refusals of a Buy of a registered user with this body.
\* An amount is valid when it is above 0 and at most the balance.
RefusalsInOrder(caller, marketId, side, amount) ==
    LET error == trade(caller, marketId, side, amount).response.error
        balance == BalanceOf(users, caller)
    IN  /\ side \notin {"YES", "NO"} => error = "Invalid side"
        /\ (side \in {"YES", "NO"} /\ (JsLe(amount, JsNumber(0)) \/ JsGt(amount, balance))) =>
              error = "Invalid amount"
        /\ error = "Market not found" =>
              /\ side \in {"YES", "NO"}
              /\ JsGt(amount, JsNumber(0))
              /\ JsLe(amount, balance)

\* C28: an invalid side is refused as 'Invalid side' whatever the amount and
\* the market; with a valid side, an amount <= 0 or > balance is refused as
\* 'Invalid amount' whatever the market; 'Market not found' is the answer
\* only when the side and the amount are both valid.
C28_RefusalPrecedence ==
    \A caller \in UserIds, marketId \in MarketIdInputs, side \in SideInputs,
       amount \in AmountInputs :
        RefusalsInOrder(caller, marketId, side, amount)

\* What the code keeps: the same for amounts that are numbers, sent by users
\* whose balance is a number.
C28_RefusalPrecedenceOfNumbers ==
    \A caller \in UserIds, marketId \in MarketIdInputs, side \in SideInputs,
       amount \in AmountInputs :
        (IsNum(amount) /\ IsNum(BalanceOf(users, caller))) =>
            RefusalsInOrder(caller, marketId, side, amount)

\* A user who spent part of the balance: on a market that does not exist,
\* a bad side with a bad amount is refused for the side, a good side with the
\* starting balance as amount for the amount, and a good side with a good
\* amount for the market.
C28_ThreeRefusals ==
    \E caller \in UserIds :
        LET nowhere == JsNumber(NumMarkets)
        IN  /\ JsGt(JsNumber(StartBalance), BalanceOf(users, caller))
            /\ trade(caller, nowhere, "MAYBE", JsNumber(0)).response.error = "Invalid side"
            /\ trade(caller, nowhere, "YES", JsNumber(StartBalance)).response.error
                  = "Invalid amount"
            /\ trade(caller, nowhere, "YES", JsNumber(1)).response.error
                  = "Market not found"

\* --------------------------------------------------------------------- C29
\* The records of the Buys of user u that the position pos took in: those
\* with its market id and its side.
FillsInto(u, pos) ==
    {k \in 1 .. Len(trades) :
        /\ trades[k].userId = u
        /\ trades[k].marketId = pos.marketId
        /\ trades[k].side = pos.side}

\* The average cost of pos is a number, at least the smallest and at most the
\* largest price of its fills, and within 1..99.
AvgWithinFills(u, pos) ==
    /\ pos.avg.t = "number"
    /\ \E k \in FillsInto(u, pos) : trades[k].price.n * pos.avg.den <= pos.avg.num
    /\ \E k \in FillsInto(u, pos) : pos.avg.num <= trades[k].price.n * pos.avg.den
    /\ 1 * pos.avg.den <= pos.avg.num
    /\ pos.avg.num <= 99 * pos.avg.den

\* C29: in every reachable state the average cost of every open position is
\* a number between the smallest and the largest fill price of the Buys
\* merged into it, and so within 1..99, whatever those Buys acquired.
C29_AvgBetweenFills ==
    \A u \in UserIds :
        \A j \in 1 .. Len(positions[u]) : AvgWithinFills(u, positions[u][j])

\* What the code keeps: the same for the positions that hold at least one
\* share and whose fills all acquired a number of shares.
C29_AvgOfHeldShares ==
    \A u \in UserIds :
        \A j \in 1 .. Len(positions[u]) :
            LET pos == positions[u][j]
            IN  (/\ IsNum(pos.shares) /\ pos.shares.n >= 1
                 /\ \A k \in FillsInto(u, pos) : IsNum(trades[k].shares)) =>
                    AvgWithinFills(u, pos)

\* A position merged from two fills at different prices, with an average
\* strictly between them.
C29_MergedAcrossATick ==
    \E u \in UserIds :
        \E j \in 1 .. Len(positions[u]) :
            LET pos == positions[u][j]
            IN  /\ pos.avg.t = "number"
                /\ \E k \in FillsInto(u, pos) : trades[k].price.n * pos.avg.den < pos.avg.num
                /\ \E k \in FillsInto(u, pos) : pos.avg.num < trades[k].price.n * pos.avg.den

\* --------------------------------------------------------------------- C30
\* The sum of the amounts of the records of user u among the first n of the
\* log.
RECURSIVE Spent(_, _)
Spent(u, n) ==
    IF n = 0 THEN JsNumber(0)
    ELSE IF trades[n].userId = u
         THEN JsAdd(Spent(u, n - 1), ToNumber(trades[n].amount))
         ELSE Spent(u, n - 1)

\* In a state: a user who has sold nothing has 10000 less the amounts of the
\* user's records.
UnsoldBalances ==
    \A k \in 1 .. Len(users) :
        users[k].wins + users[k].losses = 0 =>
            users[k].balance = JsSub(Money(10000), Spent(users[k].id, Len(trades)))

\* Over a step, for every user: a new record of the user takes its amount
\* off the balance, an accepted Sell of the user (wins + losses go up) adds
\* the shares * price of a position it closes, and any other step (a tick, a
\* refused or failed request, a request of another user) leaves the balance.
BalanceFollowsLog ==
    \A k \in 1 .. Len(users) :
        LET u == users[k]
            bought == /\ Len(trades') > Len(trades)
                      /\ trades'[Len(trades')].userId = u.id
            sold == users'[k].wins + users'[k].losses > u.wins + u.losses
        IN  /\ bought =>
                  users'[k].balance = JsSub(u.balance, ToNumber(trades'[Len(trades')].amount))
            /\ sold =>
                  \E j \in 1 .. Len(positions[u.id]) :
                      LET pos == positions[u.id][j]
                          m == markets[MarketOf(pos)]
                          price == IF pos.side = "YES" THEN m.yes ELSE m.no
                      IN  /\ pos.id \notin OpenIds(positions')
                          /\ users'[k].balance =
                                JsAdd(u.balance, JsMul(pos.shares, JsNumber(price)))
            /\ (~bought /\ ~sold) => users'[k].balance = u.balance

\* C30: every balance is 10000 less the amounts of the user's records in the
\* log plus the payouts of the user's accepted Sells: it starts at 10000,
\* moves by exactly that with each record and each Sell, and by nothing with
\* any other step.
C30_BalanceIsLedgerSum == [](UnsoldBalances) /\ [][BalanceFollowsLog]_vars

\* What the code keeps: the same over the steps in which no Buy fails after
\* its debit.
C30_BalanceOfCompletedBuys ==
    /\ [](thrown = 0 => UnsoldBalances)
    /\ [][thrown' = thrown => BalanceFollowsLog]_vars

\* A user with two records in the log and one Sell, whose balance is a
\* number other than 10000.
C30_BoughtTwiceSoldOnce ==
    \E k \in 1 .. Len(users) :
        /\ Len(trades) = 2
        /\ \A n \in 1 .. 2 : trades[n].userId = users[k].id
        /\ users[k].wins + users[k].losses = 1
        /\ IsNum(users[k].balance)
        /\ users[k].balance # Money(10000)

\* ---------------------------------------------------------------------- C31
\* The step is an accepted Sell of user u: the sell handler, called by u with
\* some position id, answers 200 and its writes are the next state.
AcceptedSellOf(u) ==
    \E positionId \in PositionIdInputs :
        LET r == sell(u, positionId)
        IN  r.response.status = 200 /\ Commit(r)

\* The step is an accepted Buy of user u that opened a new position: the
\* trade handler, called by u, answers 200 and leaves u one position more.
AcceptedOpeningBuyOf(u) ==
    \E marketId \in TradedMarketIds, side \in Sides, amount \in TradedAmounts :
        LET r == trade(u, marketId, side, amount)
        IN  /\ r.response.status = 200
            /\ Len(r.positions[u]) > Len(positions[u])
            /\ Commit(r)

\* wins + losses of all the users, up to the n-th
RECURSIVE SellsTallied(_)
SellsTallied(n) ==
    IF n = 0 THEN 0 ELSE SellsTallied(n - 1) + users[n].wins + users[n].losses

\* open positions of all the users, up to the n-th
RECURSIVE OpenCount(_)
OpenCount(n) ==
    IF n = 0 THEN 0 ELSE OpenCount(n - 1) + Len(positions[users[n].id])

\* In a state: the positions ever opened (one id each) are the open ones and
\* the ones a Sell has tallied.
OpenedAreOpenOrTallied == OpenCount(Len(users)) + SellsTallied(Len(users)) = uuid

\* Over a step, for every user: wins and losses do not go down, wins + losses
\* goes up by 1 with an accepted Sell of the user and by nothing otherwise,
\* and the number of open positions goes up by 1 with an accepted Buy of the
\* user that opened a position, down by 1 with an accepted Sell of the user,
\* and stays otherwise; a user who registers starts with 0 wins, 0 losses
\* and no position.
TalliesFollowRequests ==
    /\ \A k \in 1 .. Len(users) :
          LET u == users[k]
              v == users'[k]
              sold == IF AcceptedSellOf(u.id) THEN 1 ELSE 0
              opened == IF AcceptedOpeningBuyOf(u.id) THEN 1 ELSE 0
          IN  /\ v.id = u.id
              /\ v.wins >= u.wins
              /\ v.losses >= u.losses
              /\ v.wins + v.losses = u.wins + u.losses + sold
              /\ Len(positions'[u.id]) = Len(positions[u.id]) + opened - sold
    /\ \A k \in Len(users) + 1 .. Len(users') :
          /\ users'[k].wins = 0
          /\ users'[k].losses = 0
          /\ positions'[users'[k].id] = <<>>

\* C31: for each user wins + losses is the number of the user's accepted
\* Sells, and the number of open positions is the number of accepted Buys
\* that opened a position less the number of accepted Sells; wins and losses
\* never decrease.  Stated step by step from the registration (all three
\* are 0), and summed over the users against the number of positions opened.
C31_TalliesCountSellsAndBuys ==
    [](OpenedAreOpenOrTallied) /\ [][TalliesFollowRequests]_vars

\* A user who opened two positions and sold one of them: one Sell tallied,
\* one position open.
C31_OpenedTwoSoldOne ==
    \E k \in 1 .. Len(users) :
        /\ users[k].wins + users[k].losses = 1
        /\ Len(positions[users[k].id]) = 1
        /\ uuid = 2

====
